---- MODULE Spec2Model ----
(***************************************************************************)
(* Flakiness Detective: the clustering engine (clusterFailures over the    *)
(* density-clustering DBSCAN), the cluster summarizer (findCommonElements  *)
(* and the two pattern strings) and the detect() pipeline of               *)
(* FlakinessDetective.                                                     *)
(*                                                                         *)
(* Conventions.  JavaScript arrays are sequences; array index k is         *)
(* position k+1.  A JavaScript object with optional keys is a function     *)
(* whose DOMAIN is the set of keys that are present.  Strings are strings. *)
(* Embedding vectors are sequences of integers (a fixed-point grid); the   *)
(* Euclidean comparison dist <= epsilon is made on the squares.            *)
(***************************************************************************)
EXTENDS Integers, Sequences, FiniteSets, TLC

VARIABLES
  pc,                \* position of the call under study
  embeddedFailures,  \* the failures handed to clusterFailures
  options,           \* the clustering options handed to clusterFailures
  clusterResults,    \* what clusterFailures returned
  config,            \* FlakinessDetective.config
  fetchedFailures,   \* what fetchFailures resolved to
  calls,             \* the calls detect() has made and their settlements
  returned,          \* how the promise of detect() settled
  store,             \* the clusters a resolved saveClusters has persisted
  extractInput,      \* the failure handed to extractPatterns
  extractPasses,     \* what the successive passes of extractPatterns returned
  contextArgs,       \* the arguments handed to a context builder
  contextString,     \* the string the context builder returned
  contents,          \* the texts handed to embedBatch
  batchStart,        \* the loop index i of embedBatch
  inFlight,          \* the positions whose embedContent has not settled
  completed,         \* the settled embedContent calls of the batch, in completion order
  results,           \* the results array of embedBatch
  batchOutcome,      \* how the promise of embedBatch settled
  adapterKind,       \* which DataAdapter is under study
  memoryClusters,    \* InMemoryAdapter.clusters
  clustersFile,      \* the clusters file of the FileSystemAdapter
  saveLog,           \* the lists handed to saveClusters so far
  fetchArgs,         \* the arguments of the fetchClusters call
  fetchedClusters,   \* what fetchClusters resolved to
  clock,             \* what Date.now() returns
  runResults,        \* what the successive runs of clusterFailures returned
  runStore,          \* the clusters saved after the runs
  savers,            \* the overlapping saveClusters calls: their argument, position and what they read
  sharedFile,        \* the clusters file the overlapping calls share
  failuresCollection,\* the documents of the Firestore failures collection, by document id
  firestoreQuery,    \* the days argument and the status filter of the fetchFailures call
  fetchedBack        \* what FirestoreAdapter.fetchFailures resolved to

vars == <<pc, embeddedFailures, options, clusterResults, config,
          fetchedFailures, calls, returned, store, extractInput,
          extractPasses, contextArgs, contextString, contents, batchStart,
          inFlight, completed, results, batchOutcome, adapterKind,
          memoryClusters, clustersFile, saveLog, fetchArgs, fetchedClusters,
          clock, runResults, runStore, savers, sharedFile, failuresCollection,
          firestoreQuery, fetchedBack>>

clusterVars == <<embeddedFailures, options, clusterResults>>

detectVars == <<config, fetchedFailures, calls, returned, store>>

extractVars == <<extractInput, extractPasses>>

contextVars == <<contextArgs, contextString>>

batchVars == <<contents, batchStart, inFlight, completed, results, batchOutcome>>

storeVars == <<adapterKind, memoryClusters, clustersFile, saveLog, fetchArgs, fetchedClusters>>

runVars == <<clock, runResults, runStore>>

overlapVars == <<savers, sharedFile>>

firestoreVars == <<failuresCollection, firestoreQuery, fetchedBack>>

\* nothing has been handed to clusterFailures or to detect()
NoPipeline ==
  /\ embeddedFailures = <<>>
  /\ options = <<>>
  /\ clusterResults = <<>>
  /\ config = <<>>
  /\ fetchedFailures = <<>>
  /\ calls = <<>>
  /\ returned = <<>>
  /\ store = <<>>

\* nothing has been handed to extractPatterns
NoExtract ==
  /\ extractInput = <<>>
  /\ extractPasses = <<>>

\* nothing has been handed to a context builder
NoContext ==
  /\ contextArgs = <<>>
  /\ contextString = ""

\* nothing has been handed to embedBatch
NoBatch ==
  /\ contents = <<>>
  /\ batchStart = 0
  /\ inFlight = {}
  /\ completed = <<>>
  /\ results = <<>>
  /\ batchOutcome = <<>>

\* no adapter is under study
NoStore ==
  /\ adapterKind = ""
  /\ memoryClusters = <<>>
  /\ clustersFile = <<>>
  /\ saveLog = <<>>
  /\ fetchArgs = <<>>
  /\ fetchedClusters = <<>>

\* no succession of runs is under study
NoRuns ==
  /\ clock = 0
  /\ runResults = <<>>
  /\ runStore = <<>>

\* no overlapping saveClusters calls are under study
NoOverlap ==
  /\ savers = <<>>
  /\ sharedFile = <<>>

\* no Firestore adapter is under study
NoFirestore ==
  /\ failuresCollection = <<>>
  /\ firestoreQuery = <<>>
  /\ fetchedBack = <<>>

\* the variables outside the clustering call and the detect() run
outsidePipeline == <<extractVars, contextVars, batchVars, storeVars, runVars,
                     overlapVars, firestoreVars>>

NothingOutsidePipeline ==
  /\ NoExtract
  /\ NoContext
  /\ NoBatch
  /\ NoStore
  /\ NoRuns
  /\ NoOverlap
  /\ NoFirestore

\* the variables outside the calls of extractPatterns
outsideExtract == <<clusterVars, detectVars, contextVars, batchVars,
                    storeVars, runVars, overlapVars, firestoreVars>>

NothingOutsideExtract ==
  /\ NoPipeline
  /\ NoContext
  /\ NoBatch
  /\ NoStore
  /\ NoRuns
  /\ NoOverlap
  /\ NoFirestore

\* the variables outside the calls of the context builders
outsideContext == <<clusterVars, detectVars, extractVars, batchVars,
                    storeVars, runVars, overlapVars, firestoreVars>>

NothingOutsideContext ==
  /\ NoPipeline
  /\ NoExtract
  /\ NoBatch
  /\ NoStore
  /\ NoRuns
  /\ NoOverlap
  /\ NoFirestore

\* the variables outside the run of embedBatch
outsideBatch == <<clusterVars, detectVars, extractVars, contextVars,
                  storeVars, runVars, overlapVars, firestoreVars>>

NothingOutsideBatch ==
  /\ NoPipeline
  /\ NoExtract
  /\ NoContext
  /\ NoStore
  /\ NoRuns
  /\ NoOverlap
  /\ NoFirestore

\* the variables outside the adapter calls
outsideStore == <<clusterVars, detectVars, extractVars, contextVars,
                  batchVars, runVars, overlapVars, firestoreVars>>

NothingOutsideStore ==
  /\ NoPipeline
  /\ NoExtract
  /\ NoContext
  /\ NoBatch
  /\ NoRuns
  /\ NoOverlap
  /\ NoFirestore

\* the variables outside the succession of runs
outsideRuns == <<clusterVars, detectVars, extractVars, contextVars, batchVars,
                 storeVars, overlapVars, firestoreVars>>

NothingOutsideRuns ==
  /\ NoPipeline
  /\ NoExtract
  /\ NoContext
  /\ NoBatch
  /\ NoStore
  /\ NoOverlap
  /\ NoFirestore

\* the variables outside the overlapping saveClusters calls
outsideOverlap == <<clusterVars, detectVars, extractVars, contextVars,
                    batchVars, storeVars, runVars, firestoreVars>>

NothingOutsideOverlap ==
  /\ NoPipeline
  /\ NoExtract
  /\ NoContext
  /\ NoBatch
  /\ NoStore
  /\ NoRuns
  /\ NoFirestore

\* the variables outside the Firestore adapter calls
outsideFirestore == <<clusterVars, detectVars, extractVars, contextVars,
                      batchVars, storeVars, runVars, overlapVars>>

NothingOutsideFirestore ==
  /\ NoPipeline
  /\ NoExtract
  /\ NoContext
  /\ NoBatch
  /\ NoStore
  /\ NoRuns
  /\ NoOverlap

(***************************************************************************)
(* Bounds of the explored inputs.                                          *)
(***************************************************************************)
MaxFailures == 7
MaxCoord == 4
MaxMembers == 4
MaxFetched == 3
MaxWeight == 30
MaxContents == 7
MaxSaves == 3
MaxLimit == 3
MaxRuns == 2
MaxClock == 2

\* the number of saveClusters calls that overlap
MaxSavers == 2

\* the most documents the failures collection holds
MaxStored == 2

(***************************************************************************)
(* Generic helpers.                                                        *)
(***************************************************************************)
Min(a, b) == IF a <= b THEN a ELSE b

Range(s) == {s[i] : i \in 1..Len(s)}

\* String.prototype.substring(from, to) for 0 <= from <= to
Substring(s, from, to) == SubSeq(s, from + 1, Min(to, Len(s)))

RECURSIVE Flatten(_)
Flatten(ss) == IF ss = <<>> THEN <<>> ELSE Head(ss) \o Flatten(Tail(ss))

(***************************************************************************)
(* DBSCAN.run of the density-clustering package, as section 4.3 of the     *)
(* specification describes it: brute-force region query, core-point test,  *)
(* expansion over a visited set.  A state of the run is                    *)
(* [visited, assigned, clusters].                                          *)
(***************************************************************************)
RECURSIVE SumSq(_, _, _)
SumSq(a, b, i) ==
  IF i > Len(a) THEN 0
  ELSE (a[i] - b[i]) * (a[i] - b[i]) + SumSq(a, b, i + 1)

\* squared Euclidean distance
Dist2(a, b) == SumSq(a, b, 1)

IsNeighbour(dataset, p, q, epsilon) ==
  Dist2(dataset[p], dataset[q]) <= epsilon * epsilon

\* ids of all points within epsilon of p (p included), ascending
regionQuery(dataset, p, epsilon) ==
  SelectSeq([i \in 1..Len(dataset) |-> i],
            LAMBDA q : IsNeighbour(dataset, p, q, epsilon))

IsCorePoint(dataset, p, epsilon, minPts) ==
  Len(regionQuery(dataset, p, epsilon)) >= minPts

\* append to a the elements of b that a does not hold yet
RECURSIVE mergeArrays(_, _)
mergeArrays(a, b) ==
  IF b = <<>> THEN a
  ELSE mergeArrays(IF Head(b) \in Range(a) THEN a ELSE Append(a, Head(b)),
                   Tail(b))

addToCluster(st, pointId, clusterId) ==
  [st EXCEPT !.clusters[clusterId] = Append(@, pointId),
             !.assigned = @ \cup {pointId}]

RECURSIVE expandCluster(_, _, _, _, _, _, _)
expandCluster(dataset, epsilon, minPts, st, clusterId, neighbors, i) ==
  IF i > Len(neighbors) THEN st
  ELSE
    LET q == neighbors[i]
        fresh == q \notin st.visited
        n2 == regionQuery(dataset, q, epsilon)
        grown == IF fresh /\ Len(n2) >= minPts
                 THEN mergeArrays(neighbors, n2) ELSE neighbors
        st1 == [st EXCEPT !.visited = @ \cup {q}]
        st2 == IF q \notin st1.assigned
               THEN addToCluster(st1, q, clusterId) ELSE st1
    IN expandCluster(dataset, epsilon, minPts, st2, clusterId, grown, i + 1)

RECURSIVE dbscanFrom(_, _, _, _, _)
dbscanFrom(dataset, epsilon, minPts, st, p) ==
  IF p > Len(dataset) THEN st.clusters
  ELSE IF p \in st.visited
  THEN dbscanFrom(dataset, epsilon, minPts, st, p + 1)
  ELSE
    LET st1 == [st EXCEPT !.visited = @ \cup {p}]
        neighbors == regionQuery(dataset, p, epsilon)
    IN IF Len(neighbors) < minPts
       THEN dbscanFrom(dataset, epsilon, minPts, st1, p + 1)
       ELSE
         LET clusterId == Len(st1.clusters) + 1
             st2 == [st1 EXCEPT !.clusters = Append(@, <<>>)]
             st3 == addToCluster(st2, p, clusterId)
         IN dbscanFrom(dataset, epsilon, minPts,
                       expandCluster(dataset, epsilon, minPts, st3,
                                     clusterId, neighbors, 1),
                       p + 1)

\* the list of clusters, each a list of point ids, in creation order
DBSCAN(dataset, epsilon, minPts) ==
  dbscanFrom(dataset, epsilon, minPts,
             [visited |-> {}, assigned |-> {}, clusters |-> <<>>], 1)

(***************************************************************************)
(* Cluster summarizer.                                                     *)
(***************************************************************************)
Digits == "0123456789"

\* String.prototype.charAt at position i (1-based); "" outside the string
charAt(s, i) == IF i >= 1 /\ i <= Len(s) THEN SubSeq(s, i, i) ELSE ""

IsDigit(c) == \E d \in 1..10 : charAt(Digits, d) = c

DigitVal(c) == (CHOOSE d \in 1..10 : charAt(Digits, d) = c) - 1

RECURSIVE ParseDigits(_, _, _)
ParseDigits(s, i, acc) ==
  IF i > Len(s) THEN acc
  ELSE ParseDigits(s, i + 1, acc * 10 + DigitVal(charAt(s, i)))

\* A property key that is a canonical array index (the decimal form of an
\* integer below 2^32 - 1): Object.values lists such keys first, in
\* ascending numeric order, and the other keys after them in insertion
\* order.  Keys of ten digits and more are outside the explored values.
IsArrayIndex(key) ==
  /\ Len(key) > 0
  /\ Len(key) < 10
  /\ \A i \in 1..Len(key) : IsDigit(charAt(key, i))
  /\ (Len(key) = 1 \/ charAt(key, 1) # "0")

RECURSIVE InsertByIndex(_, _)
InsertByIndex(sorted, key) ==
  IF sorted = <<>> THEN <<key>>
  ELSE IF ParseDigits(key, 1, 0) < ParseDigits(Head(sorted), 1, 0)
       THEN <<key>> \o sorted
       ELSE <<Head(sorted)>> \o InsertByIndex(Tail(sorted), key)

RECURSIVE SortByIndex(_)
SortByIndex(keys) ==
  IF keys = <<>> THEN <<>>
  ELSE InsertByIndex(SortByIndex(Tail(keys)), Head(keys))

\* the order in which Object.values enumerates an object whose keys were
\* inserted in the order of keys
OwnKeysOrder(keys) ==
  SortByIndex(SelectSeq(keys, IsArrayIndex))
    \o SelectSeq(keys, LAMBDA k : ~IsArrayIndex(k))

RECURSIVE DistinctKeys(_, _)
DistinctKeys(keys, seen) ==
  IF keys = <<>> THEN seen
  ELSE DistinctKeys(Tail(keys),
                    IF Head(keys) \in Range(seen) THEN seen
                    ELSE Append(seen, Head(keys)))

\* The names counts = {} inherits from Object.prototype.  For such a key
\* counts[key] is already truthy, so no own entry { count, value } is ever
\* created for it and Object.values(counts) never lists it.
ObjectPrototypeKeys ==
  {"constructor", "toString", "toLocaleString", "valueOf", "hasOwnProperty",
   "isPrototypeOf", "propertyIsEnumerable", "__proto__", "__defineGetter__",
   "__defineSetter__", "__lookupGetter__", "__lookupSetter__"}

CreatesOwnEntry(key) == key \notin ObjectPrototypeKeys

\* String(element), for an element of the given type
String(element, type) ==
  IF type = "number" THEN ToString(element) ELSE element

\* findCommonElements(elements, thresholdCount) for elements of the given
\* type; thresholdCount is carried in halves (failures.length * 0.5 is
\* failures.length halves).
findCommonElements(elements, thresholdCount, type) ==
  LET keyOf == [i \in 1..Len(elements) |-> String(elements[i], type)]
      inserted == DistinctKeys(SelectSeq(keyOf, CreatesOwnEntry), <<>>)
      count(k) == Cardinality({i \in 1..Len(elements) : keyOf[i] = k})
      value(k) ==
        elements[CHOOSE i \in 1..Len(elements) :
                   /\ keyOf[i] = k
                   /\ \A j \in 1..(i - 1) : keyOf[j] # k]
      kept == SelectSeq(OwnKeysOrder(inserted),
                        LAMBDA k : 2 * count(k) >= thresholdCount)
  IN [i \in 1..Len(kept) |-> value(kept[i])]

Has(obj, key) == key \in DOMAIN obj

\* failures.map(f => f.metadata[key]).filter(Boolean), for string values
TruthyStrings(failures, key) ==
  LET present == SelectSeq(failures,
                   LAMBDA f : Has(f.metadata, key) /\ f.metadata[key] # "")
  IN [i \in 1..Len(present) |-> present[i].metadata[key]]

\* failures.map(f => f.metadata.timeoutMs).filter(t => t !== undefined && t > 0)
PositiveTimeouts(failures) ==
  LET present == SelectSeq(failures,
                   LAMBDA f : Has(f.metadata, "timeoutMs")
                              /\ f.metadata.timeoutMs > 0)
  IN [i \in 1..Len(present) |-> present[i].metadata.timeoutMs]

\* failures.flatMap(f => f.metadata.errorSnippets || [])
AllSnippets(failures) ==
  Flatten([i \in 1..Len(failures) |->
             IF Has(failures[i].metadata, "errorSnippets")
             THEN failures[i].metadata.errorSnippets ELSE <<>>])

\* new Date(now).toISOString()
toISOString(now) == "T" \o ToString(now)

\* the snippet not cut to 100 characters
FailurePatternUncut(commonFilePaths, commonLineNumbers, commonCodeSnippets) ==
  IF Len(commonFilePaths) > 0 /\ Len(commonLineNumbers) > 0
  THEN "Common failure at " \o commonFilePaths[1] \o ":" \o commonLineNumbers[1]
  ELSE IF Len(commonCodeSnippets) > 0
  THEN "Common code pattern: " \o commonCodeSnippets[1] \o "..."
  ELSE "Similar test failures"

FailurePatternOf(commonFilePaths, commonLineNumbers, commonCodeSnippets) ==
  IF Len(commonFilePaths) > 0 /\ Len(commonLineNumbers) > 0
  THEN "Common failure at " \o commonFilePaths[1] \o ":" \o commonLineNumbers[1]
  ELSE IF Len(commonCodeSnippets) > 0
  THEN "Common code pattern: " \o Substring(commonCodeSnippets[1], 0, 100) \o "..."
  ELSE "Similar test failures"

\* the timeout suffix appended to every non-empty pattern
AssertionPatternSuffixAlways(commonLocators, commonMatchers, commonTimeouts) ==
  LET suffix == IF Len(commonTimeouts) > 0
                THEN " (" \o ToString(commonTimeouts[1]) \o "ms timeout)"
                ELSE ""
  IN IF Len(commonLocators) > 0 /\ Len(commonMatchers) > 0
     THEN (commonMatchers[1] \o " on " \o commonLocators[1]) \o suffix
     ELSE IF Len(commonLocators) > 0
     THEN "Common locator: " \o commonLocators[1] \o suffix
     ELSE IF Len(commonMatchers) > 0
     THEN "Common matcher: " \o commonMatchers[1] \o suffix
     ELSE ""

AssertionPatternOf(commonLocators, commonMatchers, commonTimeouts) ==
  IF Len(commonLocators) > 0 /\ Len(commonMatchers) > 0
  THEN (commonMatchers[1] \o " on " \o commonLocators[1])
         \o (IF Len(commonTimeouts) > 0
             THEN " (" \o ToString(commonTimeouts[1]) \o "ms timeout)"
             ELSE "")
  ELSE IF Len(commonLocators) > 0
  THEN "Common locator: " \o commonLocators[1]
  ELSE IF Len(commonMatchers) > 0
  THEN "Common matcher: " \o commonMatchers[1]
  ELSE ""

\* the members taken by position in the cluster instead of by point id
MembersOfByPosition(failureList, indices) ==
  [i \in 1..Len(indices) |-> failureList[i]]

\* the members of one DBSCAN cluster, in cluster order
MembersOf(failureList, indices) ==
  [i \in 1..Len(indices) |-> failureList[indices[i]]]

\* the body of the map callback for a cluster that is large enough
BuildCluster(failures, clusterId, now) ==
  LET first == failures[1]
      commonFilePaths ==
        findCommonElements(TruthyStrings(failures, "filePath"),
                           Len(failures), "string")
      commonLineNumbers ==
        findCommonElements(TruthyStrings(failures, "lineNumber"),
                           Len(failures), "string")
      commonCodeSnippets ==
        findCommonElements(AllSnippets(failures),
                           Len(failures), "string")
      commonLocators ==
        findCommonElements(TruthyStrings(failures, "locator"),
                           Len(failures), "string")
      commonMatchers ==
        findCommonElements(TruthyStrings(failures, "matcher"),
                           Len(failures), "string")
      commonTimeouts ==
        findCommonElements(PositiveTimeouts(failures),
                           Len(failures), "number")
  IN [id |-> "cluster-" \o ToString(clusterId) \o "-" \o ToString(now),
      title |-> IF first.testTitle # "" THEN first.testTitle
                ELSE "Unknown Test",
      count |-> Len(failures),
      testId |-> first.testId,
      testTitle |-> IF first.testTitle # "" THEN first.testTitle
                    ELSE "Unknown Test",
      timestamp |-> toISOString(now),
      commonFilePaths |-> commonFilePaths,
      commonLineNumbers |-> commonLineNumbers,
      commonCodeSnippets |-> commonCodeSnippets,
      failurePattern |->
        FailurePatternOf(commonFilePaths, commonLineNumbers,
                         commonCodeSnippets),
      commonLocators |-> commonLocators,
      commonMatchers |-> commonMatchers,
      commonTimeouts |-> commonTimeouts,
      assertionPattern |->
        AssertionPatternOf(commonLocators, commonMatchers, commonTimeouts),
      failureIds |-> [i \in 1..Len(failures) |-> failures[i].id],
      failureTimestamps |->
        [i \in 1..Len(failures) |->
           IF failures[i].timestamp # "" THEN failures[i].timestamp
           ELSE toISOString(now)],
      errorMessages |->
        [i \in 1..Len(failures) |->
           Substring(failures[i].errorMessage, 0, 200)]]

null == [null |-> TRUE]

TooSmallOffByOne(indices, opts) == Len(indices) < opts.minClusterSize - 1

TooSmallOrEqual(indices, opts) == Len(indices) <= opts.minClusterSize

\* "Skip clusters that are too small"
TooSmall(indices, opts) == Len(indices) < opts.minClusterSize

\* Array.prototype.sort with (a, b) => b.count - a.count: stable, descending
RECURSIVE InsertByCount(_, _)
InsertByCount(sorted, c) ==
  IF sorted = <<>> THEN <<c>>
  ELSE IF Head(sorted).count >= c.count
       THEN <<Head(sorted)>> \o InsertByCount(Tail(sorted), c)
       ELSE <<c>> \o sorted

RECURSIVE InsertByCountAsc(_, _)
InsertByCountAsc(sorted, c) ==
  IF sorted = <<>> THEN <<c>>
  ELSE IF Head(sorted).count <= c.count
       THEN <<Head(sorted)>> \o InsertByCountAsc(Tail(sorted), c)
       ELSE <<c>> \o sorted

\* the comparator written as a.count - b.count
RECURSIVE SortByCountAsc(_)
SortByCountAsc(cs) ==
  IF cs = <<>> THEN <<>>
  ELSE InsertByCountAsc(SortByCountAsc(SubSeq(cs, 1, Len(cs) - 1)),
                        cs[Len(cs)])

RECURSIVE SortByCountDesc(_)
SortByCountDesc(cs) ==
  IF cs = <<>> THEN <<>>
  ELSE InsertByCount(SortByCountDesc(SubSeq(cs, 1, Len(cs) - 1)),
                     cs[Len(cs)])

\* dbscan.run(vectors, options.epsilon, options.minPoints)
DbscanRunSwapped(vectors, opts) == DBSCAN(vectors, opts.minPoints, opts.epsilon)

DbscanRun(vectors, opts) == DBSCAN(vectors, opts.epsilon, opts.minPoints)

clusterFailures(failureList, opts, now) ==
  IF Len(failureList) = 0 THEN <<>>
  ELSE
    LET vectors == [i \in 1..Len(failureList) |-> failureList[i].vector]
        clusterIndices == DbscanRun(vectors, opts)
        mapped ==
          [k \in 1..Len(clusterIndices) |->
             IF TooSmall(clusterIndices[k], opts) THEN null
             ELSE BuildCluster(MembersOf(failureList, clusterIndices[k]),
                               k - 1, now)]
    IN SortByCountDesc(SelectSeq(mapped, LAMBDA c : c # null))


(***************************************************************************)
(* Text scanning: the regular expressions of pattern-detection, written as *)
(* scanners over positions 1..Len(s).  Every repetition in them is         *)
(* followed by a character outside its class (or by nothing), so a greedy  *)
(* match from a given start is the maximal run.                            *)
(***************************************************************************)
UpperLetters == "ABCDEFGHIJKLMNOPQRSTUVWXYZ"

LowerLetters == "abcdefghijklmnopqrstuvwxyz"

IsSpace(c) == c \in {" ", "\t", "\n", "\r", "\f"}

UpperChars == {charAt(UpperLetters, k) : k \in 1..26}

LowerChars == {charAt(LowerLetters, k) : k \in 1..26}

\* String.prototype.toLowerCase on the letters A..Z
LowerOf ==
  [c \in UpperChars |->
     charAt(LowerLetters, CHOOSE k \in 1..26 : charAt(UpperLetters, k) = c)]

IsUpper(c) == c \in UpperChars

IsLower(c) == c \in LowerChars

\* \w
IsWord(c) == IsUpper(c) \/ IsLower(c) \/ IsDigit(c) \/ c = "_"

\* [^\s:()]
IsPathChar(c) == ~IsSpace(c) /\ c \notin {":", "(", ")"}

\* [^'"]
IsUnquoted(c) == c \notin {"'", "\""}

IsQuote(c) == c \in {"'", "\""}

toLowerChar(c) == IF IsUpper(c) THEN LowerOf[c] ELSE c

\* the literal lit stands at position i of s (letters compared without case
\* when ignoreCase)
LitAt(s, i, lit, ignoreCase) ==
  /\ i >= 1
  /\ i + Len(lit) - 1 <= Len(s)
  /\ \A k \in 1..Len(lit) :
       IF ignoreCase
       THEN toLowerChar(charAt(s, i + k - 1)) = toLowerChar(charAt(lit, k))
       ELSE charAt(s, i + k - 1) = charAt(lit, k)

\* the least position of a set of positions, or otherwise when it is empty
Least(positions, otherwise) ==
  IF positions = {} THEN otherwise
  ELSE CHOOSE i \in positions : \A j \in positions : i <= j

\* membership of a character in a character class of the regular expressions
InClass(class, c) ==
  CASE class = "space" -> IsSpace(c)
    [] class = "digit" -> IsDigit(c)
    [] class = "word" -> IsWord(c)
    [] class = "path" -> IsPathChar(c)
    [] class = "unquoted" -> IsUnquoted(c)

\* the first position at or after i whose character is outside the class
RunEnd(s, i, class) ==
  Least({k \in i..Len(s) : ~InClass(class, charAt(s, k))},
        IF i > Len(s) THEN i ELSE Len(s) + 1)

NoMatch == [found |-> FALSE]

\* the positions of the line breaks of s
Newlines(s) == {k \in 1..Len(s) : charAt(s, k) = "\n"}

\* the position of the j-th line break; 0 before the first line and
\* Len(s) + 1 after the last
NthNewline(s, j) ==
  IF j = 0 THEN 0
  ELSE IF j > Cardinality(Newlines(s)) THEN Len(s) + 1
  ELSE CHOOSE k \in Newlines(s) :
         Cardinality({x \in Newlines(s) : x <= k}) = j

\* message.split('\n')
split(s) ==
  [j \in 1..(Cardinality(Newlines(s)) + 1) |->
     SubSeq(s, NthNewline(s, j - 1) + 1, NthNewline(s, j) - 1)]

\* line.trim().startsWith('>')
IsSnippetLine(line) ==
  LET first == RunEnd(line, 1, "space")
  IN first <= Len(line) /\ charAt(line, first) = ">"

SourceExtensions == <<"js", "ts", "jsx", "tsx", "vue", "py", "java", "rb">>

\* run ends, before position e, with "." and a recognised extension that at
\* least one path character precedes
EndsWithExtension(s, from, e) ==
  \E x \in 1..Len(SourceExtensions) :
    LET ext == SourceExtensions[x]
        dot == e - Len(ext) - 1
    IN /\ dot > from
       /\ charAt(s, dot) = "."
       /\ LitAt(s, dot + 1, ext, TRUE)

\* /at\s+([^\s:()]+\.(js|ts|jsx|tsx|vue|py|java|rb)):(\d+)/i at position i
FileLineAt(s, i) ==
  LET p == RunEnd(s, i + 2, "space")
      e == RunEnd(s, p, "path")
      d == RunEnd(s, e + 1, "digit")
  IN IF /\ LitAt(s, i, "at", TRUE)
        /\ p > i + 2
        /\ EndsWithExtension(s, p, e)
        /\ e <= Len(s) /\ charAt(s, e) = ":"
        /\ d > e + 1
     THEN [found |-> TRUE,
           filePath |-> SubSeq(s, p, e - 1),
           lineNumber |-> SubSeq(s, e + 1, d - 1)]
     ELSE NoMatch

\* /at\s+([^\s:()]+\.(js|...|rb))\s+line\s+(\d+)/i at position i
AltFileLineAt(s, i) ==
  LET p == RunEnd(s, i + 2, "space")
      e == RunEnd(s, p, "path")
      l == RunEnd(s, e, "space")
      n == RunEnd(s, l + 4, "space")
      d == RunEnd(s, n, "digit")
  IN IF /\ LitAt(s, i, "at", TRUE)
        /\ p > i + 2
        /\ EndsWithExtension(s, p, e)
        /\ l > e
        /\ LitAt(s, l, "line", TRUE)
        /\ n > l + 4
        /\ d > n
     THEN [found |-> TRUE,
           filePath |-> SubSeq(s, p, e - 1),
           lineNumber |-> SubSeq(s, n, d - 1)]
     ELSE NoMatch

\* an object without key k, and with key k set to v
Without(obj, k) == [x \in DOMAIN obj \ {k} |-> obj[x]]

With(obj, k, v) == (k :> v) @@ obj

EmptyObject == <<>>

\* /Timed out\s+(\d+)ms/i at position i
TimedOutAt(s, i) ==
  LET p == RunEnd(s, i + 9, "space")
      d == RunEnd(s, p, "digit")
  IN IF /\ LitAt(s, i, "Timed out", TRUE)
        /\ p > i + 9
        /\ d > p
        /\ LitAt(s, d, "ms", TRUE)
     THEN [found |-> TRUE, value |-> ParseDigits(SubSeq(s, p, d - 1), 1, 0)]
     ELSE NoMatch

\* /<label>:?\s+['"]([^'"]+)['"]/i at position i
QuotedAfterLabelAt(s, i, label) ==
  LET c == i + Len(label) + (IF charAt(s, i + Len(label)) = ":" THEN 1 ELSE 0)
      p == RunEnd(s, c, "space")
      q == RunEnd(s, p + 1, "unquoted")
  IN IF /\ LitAt(s, i, label, TRUE)
        /\ p > c
        /\ IsQuote(charAt(s, p))
        /\ q > p + 1
        /\ IsQuote(charAt(s, q))
     THEN [found |-> TRUE, value |-> SubSeq(s, p + 1, q - 1)]
     ELSE NoMatch

ExpectedAt(s, i) == QuotedAfterLabelAt(s, i, "Expected")

ActualAt(s, i) == QuotedAfterLabelAt(s, i, "Actual")

\* /expect\(\s*(?:this\.)?(\w+)\s*\)/ at position i
LocatorAt(s, i) ==
  LET p == RunEnd(s, i + 7, "space")
      w == IF LitAt(s, p, "this.", FALSE) THEN p + 5 ELSE p
      e == RunEnd(s, w, "word")
      r == RunEnd(s, e, "space")
  IN IF /\ LitAt(s, i, "expect(", FALSE)
        /\ e > w
        /\ charAt(s, r) = ")"
     THEN [found |-> TRUE, value |-> SubSeq(s, w, e - 1)]
     ELSE NoMatch

\* /\)\s*\.(\w+)\(/ at position i
MatcherAt(s, i) ==
  LET p == RunEnd(s, i + 1, "space")
      e == RunEnd(s, p + 1, "word")
  IN IF /\ charAt(s, i) = ")"
        /\ charAt(s, p) = "."
        /\ e > p + 1
        /\ charAt(s, e) = "("
     THEN [found |-> TRUE, value |-> SubSeq(s, p + 1, e - 1)]
     ELSE NoMatch

\* /\.\w+\(\s*['"]([^'"]+)['"]\s*\)/ at position i
SnippetExpectedAt(s, i) ==
  LET e == RunEnd(s, i + 1, "word")
      p == RunEnd(s, e + 1, "space")
      q == RunEnd(s, p + 1, "unquoted")
      r == RunEnd(s, q + 1, "space")
  IN IF /\ charAt(s, i) = "."
        /\ e > i + 1
        /\ charAt(s, e) = "("
        /\ IsQuote(charAt(s, p))
        /\ q > p + 1
        /\ IsQuote(charAt(s, q))
        /\ charAt(s, r) = ")"
     THEN [found |-> TRUE, value |-> SubSeq(s, p + 1, q - 1)]
     ELSE NoMatch

\* /timeout:\s*(\d+)/ at position i
SnippetTimeoutAt(s, i) ==
  LET p == RunEnd(s, i + 8, "space")
      d == RunEnd(s, p, "digit")
  IN IF LitAt(s, i, "timeout:", FALSE) /\ d > p
     THEN [found |-> TRUE, value |-> ParseDigits(SubSeq(s, p, d - 1), 1, 0)]
     ELSE NoMatch

\* the match of the named regular expression at position i of s
MatchAt(pattern, s, i) ==
  CASE pattern = "fileLine" -> FileLineAt(s, i)
    [] pattern = "altFileLine" -> AltFileLineAt(s, i)
    [] pattern = "timedOut" -> TimedOutAt(s, i)
    [] pattern = "expected" -> ExpectedAt(s, i)
    [] pattern = "actual" -> ActualAt(s, i)
    [] pattern = "locator" -> LocatorAt(s, i)
    [] pattern = "matcher" -> MatcherAt(s, i)
    [] pattern = "snippetExpected" -> SnippetExpectedAt(s, i)
    [] pattern = "snippetTimeout" -> SnippetTimeoutAt(s, i)

\* match, or otherwise when the regular expression did not match
OrElse(match, otherwise) == IF match.found THEN match ELSE otherwise

\* the match at position i, and no match at position 0
MatchAtOrNone(pattern, s, i) ==
  IF i = 0 THEN NoMatch ELSE MatchAt(pattern, s, i)

\* the match at the least start position of 1..Len(s), as String.match finds it
FirstMatch(s, pattern) ==
  MatchAtOrNone(pattern, s,
                Least({i \in 1..Len(s) : MatchAt(pattern, s, i).found}, 0))

\* the loop over the lines: the first line that matches either form decides
RECURSIVE FirstLocation(_)
FirstLocation(lines) ==
  IF lines = <<>> THEN NoMatch
  ELSE OrElse(FirstMatch(Head(lines), "fileLine"),
              OrElse(FirstMatch(Head(lines), "altFileLine"),
                     FirstLocation(Tail(lines))))

\* the returned record: filePath and lineNumber are set when a location was
\* found
WithLocation(result, location) ==
  IF location.found
  THEN [errorSnippets |-> result.errorSnippets,
        filePath |-> location.filePath,
        lineNumber |-> location.lineNumber]
  ELSE result

\* extractFromErrorMessage(message)
extractFromErrorMessage(message) ==
  WithLocation([errorSnippets |-> SelectSeq(split(message), IsSnippetLine)],
               FirstLocation(split(message)))

\* String.prototype.includes
includes(s, lit) == \E i \in 1..Len(s) : LitAt(s, i, lit, FALSE)

\* obj with key k set to the match's value when the regular expression matched
SetIfFound(obj, k, match) ==
  IF match.found THEN With(obj, k, match.value) ELSE obj

\* the body of the loop over the snippets, for one snippet
ScanSnippet(details, snippet) ==
  IF includes(snippet, "expect(") /\ includes(snippet, ").")
  THEN SetIfFound(
         SetIfFound(
           SetIfFound(
             SetIfFound(details, "locator", FirstMatch(snippet, "locator")),
             "matcher", FirstMatch(snippet, "matcher")),
           "expectedValue", FirstMatch(snippet, "snippetExpected")),
         "timeoutMs", FirstMatch(snippet, "snippetTimeout"))
  ELSE details

RECURSIVE ScanSnippets(_, _)
ScanSnippets(details, snippets) ==
  IF snippets = <<>> THEN details
  ELSE ScanSnippets(ScanSnippet(details, Head(snippets)), Tail(snippets))

\* extractFrameworkDetails(message, snippets): the keys that were found
extractFrameworkDetails(message, snippets) ==
  ScanSnippets(
    SetIfFound(
      SetIfFound(
        SetIfFound(EmptyObject, "timeoutMs", FirstMatch(message, "timedOut")),
        "expectedValue", FirstMatch(message, "expected")),
      "actualValue", FirstMatch(message, "actual")),
    snippets)

\* JavaScript truthiness of metadata[key]: an absent key, "" and 0 are falsy,
\* an array is truthy
IsTruthy(metadata, key) ==
  /\ Has(metadata, key)
  /\ IF key = "timeoutMs" THEN metadata[key] # 0
     ELSE IF key = "errorSnippets" THEN TRUE
     ELSE metadata[key] # ""

\* metadata[key] = metadata[key] || extracted[key]
OrAssign(metadata, key, extracted) ==
  IF IsTruthy(metadata, key) THEN metadata
  ELSE IF Has(extracted, key) THEN With(metadata, key, extracted[key])
  ELSE Without(metadata, key)

RECURSIVE OrAssignAll(_, _, _)
OrAssignAll(metadata, keys, extracted) ==
  IF keys = <<>> THEN metadata
  ELSE OrAssignAll(OrAssign(metadata, Head(keys), extracted), Tail(keys),
                   extracted)

snippetsOrEmpty(metadata) ==
  IF Has(metadata, "errorSnippets") THEN metadata.errorSnippets ELSE <<>>

\* if (!metadata.errorSnippets || !metadata.lineNumber || !metadata.filePath)
NeedsLocation(metadata) ==
  \/ ~IsTruthy(metadata, "errorSnippets")
  \/ ~IsTruthy(metadata, "lineNumber")
  \/ ~IsTruthy(metadata, "filePath")

\* the first block: { ... = ... || extractedData... }
FillLocation(metadata, errorMessage) ==
  IF NeedsLocation(metadata)
  THEN OrAssignAll(metadata, <<"errorSnippets", "lineNumber", "filePath">>,
                   extractFromErrorMessage(errorMessage))
  ELSE metadata

\* if (!metadata.locator || !metadata.matcher || !metadata.actualValue ||
\*     !metadata.expectedValue)
NeedsFrameworkDetails(metadata) ==
  \/ ~IsTruthy(metadata, "locator")
  \/ ~IsTruthy(metadata, "matcher")
  \/ ~IsTruthy(metadata, "actualValue")
  \/ ~IsTruthy(metadata, "expectedValue")

\* the second block: { ... = ... || frameworkData... }
FillFrameworkDetails(metadata, errorMessage) ==
  IF NeedsFrameworkDetails(metadata)
  THEN OrAssignAll(metadata,
                   <<"locator", "matcher", "actualValue", "expectedValue",
                     "timeoutMs">>,
                   extractFrameworkDetails(errorMessage,
                                           snippetsOrEmpty(metadata)))
  ELSE metadata

\* { ...failure.metadata }: the spread of an absent metadata is empty
metadataOf(failure) ==
  IF Has(failure, "metadata") THEN failure.metadata ELSE EmptyObject

\* message.split and message.match on an undefined message
TypeError == [threw |-> "TypeError"]

\* extractPatterns with the framework block run before the location block
extractPatternsFrameworkFirst(failure) ==
  IF Has(failure, "errorMessage")
  THEN With(failure, "metadata",
            FillLocation(FillFrameworkDetails(metadataOf(failure),
                                              failure.errorMessage),
                         failure.errorMessage))
  ELSE IF \/ NeedsLocation(metadataOf(failure))
          \/ NeedsFrameworkDetails(metadataOf(failure))
       THEN TypeError
       ELSE With(failure, "metadata", metadataOf(failure))

\* extractPatterns(failure): the returned failure, or the error thrown when a
\* block that runs reads an absent errorMessage
extractPatterns(failure) ==
  IF Has(failure, "errorMessage")
  THEN With(failure, "metadata",
            FillFrameworkDetails(FillLocation(metadataOf(failure),
                                              failure.errorMessage),
                                 failure.errorMessage))
  ELSE IF \/ NeedsLocation(metadataOf(failure))
          \/ NeedsFrameworkDetails(metadataOf(failure))
       THEN TypeError
       ELSE With(failure, "metadata", metadataOf(failure))

(***************************************************************************)
(* Context builder of the core package.                                    *)
(***************************************************************************)
RECURSIVE join(_, _)
join(parts, sep) ==
  IF parts = <<>> THEN ""
  ELSE IF Len(parts) = 1 THEN parts[1]
  ELSE parts[1] \o sep \o join(Tail(parts), sep)

\* createRichEmbeddingContext(title, errorMessage, metadata)
createRichEmbeddingContext(title, errorMessage, metadata) ==
  LET Text(key, prefix, suffix) ==
        IF IsTruthy(metadata, key)
        THEN prefix \o metadata[key] \o suffix ELSE ""
      richContext ==
        <<"Test: " \o title,
          Text("projectName", "Project: ", ""),
          Text("suite", "Suite: ", ""),
          IF IsTruthy(metadata, "filePath") /\ IsTruthy(metadata, "lineNumber")
          THEN "Location: " \o metadata.filePath \o ":" \o metadata.lineNumber
          ELSE "",
          Text("locator", "Locator: ", ""),
          Text("matcher", "Matcher: ", ""),
          Text("actualValue", "Actual: \"", "\""),
          Text("expectedValue", "Expected: \"", "\""),
          IF IsTruthy(metadata, "timeoutMs")
          THEN "Timeout: " \o ToString(metadata.timeoutMs) \o "ms" ELSE "",
          IF Has(metadata, "errorSnippets") /\ Len(metadata.errorSnippets) > 0
          THEN "Code:\n" \o join(metadata.errorSnippets, "\n") ELSE "",
          "Error: " \o errorMessage>>
  IN join(SelectSeq(richContext, LAMBDA part : part # ""), "\n\n")

(***************************************************************************)
(* Context builder of the Playwright adapter.  A weight is held in tenths: *)
(* 15 is the weight 1.5.                                                   *)
(***************************************************************************)
PLAYWRIGHT_EMBEDDING_DEFAULTS ==
  [dimensions |-> 768,
   modelName |-> "default",
   selectors |-> [weight |-> 20],
   timeouts |-> [weight |-> 15],
   assertions |-> [weight |-> 18]]

Max(a, b) == IF a >= b THEN a ELSE b

\* Math.round of a non-negative number of tenths: floor(x + 0.5)
MathRound(tenths) == (tenths + 5) \div 10

\* config.selectors?.weight || 1.0
weightOf(cfg, feature) ==
  IF Has(cfg, feature) /\ cfg[feature].weight # 0
  THEN cfg[feature].weight
  ELSE 10

\* the weight cut off instead of rounded
repeatsTruncated(weight) == Max(1, weight \div 10)

\* Math.max(1, Math.round(weight))
repeats(weight) == Max(1, MathRound(weight))

\* for (let i = 0; i < repeats; i++) contextElements.push(fragment)
pushTimes(n, fragment) == [i \in 1..n |-> fragment]

\* if (condition) contextElements.push(fragment)
pushIf(condition, fragment) == IF condition THEN <<fragment>> ELSE <<>>

\* metadata.selector || metadata.locator
selectorOf(metadata) ==
  IF IsTruthy(metadata, "selector") THEN metadata.selector
  ELSE metadata.locator

\* the elements pushed for one weighted feature
pushWeighted(condition, cfg, feature, fragment) ==
  IF condition THEN pushTimes(repeats(weightOf(cfg, feature)), fragment)
  ELSE <<>>

\* contextElements of createPlaywrightEmbeddingContext before the join
contextElements(failure, metadata, cfg) ==
  <<"Test: " \o failure.testTitle>>
  \o pushIf(IsTruthy(metadata, "projectName"),
            "Project: " \o metadata.projectName)
  \o pushIf(Has(metadata, "testPath"),
            "Suite: " \o join(metadata.testPath, " > "))
  \o pushIf(IsTruthy(metadata, "filePath") /\ IsTruthy(metadata, "lineNumber"),
            "Location: " \o metadata.filePath \o ":" \o metadata.lineNumber)
  \o pushWeighted(IsTruthy(metadata, "selector") \/ IsTruthy(metadata, "locator"),
                  cfg, "selectors", "Selector: " \o selectorOf(metadata))
  \o pushWeighted(IsTruthy(metadata, "matcher"),
                  cfg, "assertions", "Matcher: " \o metadata.matcher)
  \o pushIf(IsTruthy(metadata, "expectedValue"),
            "Expected: \"" \o metadata.expectedValue \o "\"")
  \o pushIf(IsTruthy(metadata, "actualValue"),
            "Actual: \"" \o metadata.actualValue \o "\"")
  \o pushWeighted(IsTruthy(metadata, "timeoutMs"),
                  cfg, "timeouts",
                  "Timeout: " \o ToString(metadata.timeoutMs) \o "ms")
  \o pushIf(Has(metadata, "errorSnippets") /\ Len(metadata.errorSnippets) > 0,
            "Code:\n" \o join(metadata.errorSnippets, "\n"))
  \o <<"Error: " \o failure.errorMessage>>

\* createPlaywrightEmbeddingContext(failure, config)
createPlaywrightEmbeddingContext(failure, cfg) ==
  join(SelectSeq(contextElements(failure, failure.metadata, cfg),
                 LAMBDA element : element # ""),
       "\n\n")

(***************************************************************************)
(* Inputs of clusterFailures.                                              *)
(***************************************************************************)
\* createTestFailure(id, vector) of the clustering tests, with metadata
TestFailure(i, vector, metadata) ==
  [id |-> ToString(i),
   testId |-> "test-" \o ToString(i),
   testTitle |-> "Test " \o ToString(i),
   errorMessage |-> "Error in test " \o ToString(i),
   timestamp |-> "2024-01-0" \o ToString(i),
   metadata |-> metadata,
   vector |-> vector]

NoMetadata == <<>>

Reverse(s) == [i \in 1..Len(s) |-> s[Len(s) + 1 - i]]

\* the odd positions first, then the even ones
OddsThenEvens(s) ==
  LET odds == (Len(s) + 1) \div 2
  IN [i \in 1..Len(s) |-> IF i <= odds THEN s[2 * i - 1] ELSE s[2 * (i - odds)]]

\* one-dimensional vectors on the grid 0..MaxCoord: every multiset of at most
\* MaxFailures points with least coordinate 0 (distances do not change under
\* translation), listed ascending, descending and interleaved
SortedCoords(n) ==
  {s \in [1..n -> 0..MaxCoord] :
     /\ n > 0 => s[1] = 0
     /\ \A i \in 1..(n - 1) : s[i] <= s[i + 1]}

Orders(s) == {s, Reverse(s), OddsThenEvens(s)}

VectorFailures(coords) ==
  [i \in 1..Len(coords) |-> TestFailure(i, <<coords[i]>>, NoMetadata)]

\* clustering options {epsilon > 0, minPoints >= 1, minClusterSize >= 1}
OptionChoices ==
  {[epsilon |-> 1, minPoints |-> 1, minClusterSize |-> 1],
   [epsilon |-> 1, minPoints |-> 2, minClusterSize |-> 3],
   [epsilon |-> 1, minPoints |-> 4, minClusterSize |-> 3],
   [epsilon |-> 2, minPoints |-> 3, minClusterSize |-> 2]}

VectorInputs ==
  {[failures |-> VectorFailures(c), options |-> o] :
     c \in UNION {Orders(s) : s \in UNION {SortedCoords(n) : n \in 0..MaxFailures}},
     o \in OptionChoices}

\* DEFAULT_CLUSTERING_OPTIONS on a grid of tenths: epsilon 0.3 is 3
DEFAULT_CLUSTERING_OPTIONS == [epsilon |-> 3, minPoints |-> 2, minClusterSize |-> 3]

\* the vectors of 'should cluster similar failures', in tenths
ScenarioAVectors ==
  << <<10, 0, 0>>, <<11, 0, 0>>, <<9, 1, 0>>,
     <<0, 10, 0>>, <<0, 11, 0>>, <<1, 9, 0>>,
     <<0, 0, 10>>, <<5, 5, 5>> >>

ScenarioA ==
  [failures |-> [i \in 1..8 |-> TestFailure(i, ScenarioAVectors[i], NoMetadata)],
   options |-> DEFAULT_CLUSTERING_OPTIONS]

\* 'should filter out clusters smaller than minClusterSize'
ScenarioE ==
  [failures |-> [i \in 1..5 |-> TestFailure(i, ScenarioAVectors[i], NoMetadata)],
   options |-> DEFAULT_CLUSTERING_OPTIONS]

LongSnippet ==
  "> await expect(page.locator('#submit-order-button')).toBeVisible({ timeout: 5000 }); // checkout flow, step 3 of 5"

\* attribute records for the location and snippet categories
LocationChoices ==
  {NoMetadata,
   [filePath |-> "a.ts", lineNumber |-> "10"],
   [filePath |-> "b.ts", lineNumber |-> "9", errorSnippets |-> <<"> s">>],
   [filePath |-> "", errorSnippets |-> <<"> s", "> s">>],
   [filePath |-> "a.ts", errorSnippets |-> <<LongSnippet, "> s">>]}

\* attribute records for the assertion categories
AssertionChoices ==
  {[locator |-> "button", matcher |-> "toBeVisible", timeoutMs |-> 5000],
   [locator |-> "button"],
   [matcher |-> "toBeVisible", timeoutMs |-> 0],
   [locator |-> "link", matcher |-> "toHaveText", timeoutMs |-> 30],
   [locator |-> "constructor", timeoutMs |-> 5000]}

\* n failures with the given attribute records; all vectors coincide except,
\* when outlier holds, the first, which lies MaxCoord away
MetadataFailures(metas, outlier) ==
  [i \in 1..Len(metas) |->
     TestFailure(i, IF outlier /\ i = 1 THEN <<MaxCoord>> ELSE <<0>>, metas[i])]

MetadataInputs ==
  {[failures |-> MetadataFailures(m, outlier),
    options |-> [epsilon |-> 1, minPoints |-> 1, minClusterSize |-> 1]] :
     m \in UNION {[1..n -> LocationChoices] \cup [1..n -> AssertionChoices] :
                    n \in 1..MaxMembers},
     outlier \in BOOLEAN}

ClusterInputs == VectorInputs \cup MetadataInputs \cup {ScenarioA, ScenarioE}

(***************************************************************************)
(* SpecCluster: one call of clusterFailures on an input of ClusterInputs.   *)
(***************************************************************************)
InitCluster ==
  /\ pc = "call"
  /\ \E in \in ClusterInputs :
       /\ embeddedFailures = in.failures
       /\ options = in.options
  /\ clusterResults = <<>>
  /\ config = EmptyObject
  /\ fetchedFailures = <<>>
  /\ calls = <<>>
  /\ returned = EmptyObject
  /\ store = <<>>
  /\ NothingOutsidePipeline

ClusterCall ==
  /\ pc = "call"
  /\ clusterResults' = clusterFailures(embeddedFailures, options, 0)
  /\ pc' = "done"
  /\ UNCHANGED <<embeddedFailures, options, detectVars>>
  /\ UNCHANGED outsidePipeline

NextCluster == ClusterCall

SpecCluster == InitCluster /\ [][NextCluster]_vars

\* SpecDensity: the same call on the inputs that vary the vectors only
DensityInputs == VectorInputs \cup {ScenarioA, ScenarioE}

InitDensity ==
  /\ InitCluster
  /\ [failures |-> embeddedFailures, options |-> options] \in DensityInputs

SpecDensity == InitDensity /\ [][NextCluster]_vars

(***************************************************************************)
(* FlakinessDetective: the constructor and detect().  Each action is one   *)
(* run-to-completion step of detect(): the call up to its first await, and *)
(* the continuation after each awaited promise settles.                    *)
(***************************************************************************)
DEFAULT_CONFIG ==
  [clustering |-> DEFAULT_CLUSTERING_OPTIONS, timeWindow |-> [days |-> 7]]

\* { ...a, ...b }
Spread(a, b) == b @@ a

Part(obj, key) == IF Has(obj, key) THEN obj[key] ELSE EmptyObject

\* the config the constructor stores for the partial config it is given
FlakinessDetective(partial) ==
  [clustering |-> Spread(DEFAULT_CONFIG.clustering, Part(partial, "clustering")),
   timeWindow |-> Spread(DEFAULT_CONFIG.timeWindow, Part(partial, "timeWindow"))]

PartialConfigs ==
  {EmptyObject,
   [timeWindow |-> [days |-> 14]],
   [clustering |-> [epsilon |-> 5, minPoints |-> 3, minClusterSize |-> 2]],
   [clustering |-> [minClusterSize |-> 1]],
   [clustering |-> [epsilon |-> 0, minPoints |-> -1]]}

\* failure records a data adapter may hold
StoredFailures ==
  {[testId |-> "test-1",
    testTitle |-> "Test Title 1",
    errorMessage |-> "Error: Test failed\n> expect(element).toBeVisible()",
    timestamp |-> "2024-01-01",
    metadata |-> [projectName |-> "test"]],
   [testId |-> "test-2",
    testTitle |-> "Test Title 2",
    errorMessage |-> "Error: Timed out 5000ms waiting\nat test.spec.ts:42:3",
    timestamp |-> "2024-01-02",
    metadata |-> EmptyObject],
   [testId |-> "test-3",
    testTitle |-> "Test Title 3",
    errorMessage |-> "Error: Test failed\nExpected: \"foo\"",
    timestamp |-> "",
    metadata |-> [filePath |-> "existing-path.ts", lineNumber |-> "24",
                  locator |-> "existingLocator"]]}

\* the lists fetchFailures may resolve to: at most MaxFetched failures, with
\* identifiers unique within the batch
FetchResults ==
  {[i \in 1..Len(fs) |-> With(fs[i], "id", "failure-" \o ToString(i))] :
     fs \in UNION {[1..n -> StoredFailures] : n \in 0..MaxFetched}}

\* the vectors an embedding provider may return, in tenths
EmbeddingVectors == {<<0>>, <<9>>}

\* "if (failures.length === 0)" taken for every list
NeverEmpty(fetched) == FALSE

\* if (failures.length === 0)
IsEmpty(fetched) == Len(fetched) = 0

\* embedFailures: const contexts = failures.map(...)
Contexts(enhanced) ==
  [i \in 1..Len(enhanced) |->
     createRichEmbeddingContext(enhanced[i].testTitle,
                                enhanced[i].errorMessage,
                                enhanced[i].metadata)]

\* the embeddings paired with the failures from the wrong end
CombineReversed(enhanced, embeddings) ==
  [i \in 1..Len(enhanced) |->
     With(enhanced[i], "vector", embeddings[Len(enhanced) + 1 - i])]

\* embedFailures: failures.map((failure, index) =>
\*   ({ ...failure, vector: embeddings[index] }))
Combine(enhanced, embeddings) ==
  [i \in 1..Len(enhanced) |-> With(enhanced[i], "vector", embeddings[i])]

\* InMemoryAdapter.saveClusters: merge by id, in Map insertion order
RECURSIVE MergeById(_, _)
MergeById(stored, clusters) ==
  IF clusters = <<>> THEN stored
  ELSE LET c == Head(clusters)
           at == {i \in 1..Len(stored) : stored[i].id = c.id}
       IN MergeById(IF at = {} THEN Append(stored, c)
                    ELSE [stored EXCEPT ![CHOOSE i \in at : TRUE] = c],
                    Tail(clusters))

Resolved(value) == [kind |-> "resolved", value |-> value]

Rejected(error) == [kind |-> "rejected", value |-> error]

Init ==
  /\ pc = "idle"
  /\ \E partial \in PartialConfigs : config = FlakinessDetective(partial)
  /\ options = config.clustering
  /\ embeddedFailures = <<>>
  /\ clusterResults = <<>>
  /\ fetchedFailures = <<>>
  /\ calls = <<>>
  /\ returned = EmptyObject
  /\ store = <<>>
  /\ NothingOutsidePipeline

\* detect() up to "await this.dataAdapter.fetchFailures(...)"
DetectCall ==
  /\ pc = "idle"
  /\ calls' = <<[op |-> "fetchFailures", arg |-> config.timeWindow.days]>>
  /\ pc' = "fetching"
  /\ UNCHANGED <<embeddedFailures, options, clusterResults, config,
                 fetchedFailures, returned, store>>
  /\ UNCHANGED outsidePipeline

\* fetchFailures resolves: the short-circuit, or steps 2 and 3 up to
\* "await this.embeddingProvider.embedBatch(contexts)"
FetchResolve ==
  /\ pc = "fetching"
  /\ \E fetched \in FetchResults :
       LET settled == Append(calls, [op |-> "fetchFailures.resolved",
                                     arg |-> fetched])
           enhanced == [i \in 1..Len(fetched) |-> extractPatterns(fetched[i])]
           extractions ==
             [i \in 1..Len(fetched) |->
                [op |-> "extractPatterns", arg |-> fetched[i],
                 result |-> enhanced[i]]]
       IN /\ fetchedFailures' = fetched
          /\ IF IsEmpty(fetched)
             THEN /\ calls' = settled
                  /\ returned' = Resolved(<<>>)
                  /\ pc' = "resolved"
             ELSE /\ calls' = (settled \o extractions)
                                \o <<[op |-> "embedBatch",
                                      arg |-> Contexts(enhanced)]>>
                  /\ returned' = returned
                  /\ pc' = "embedding"
  /\ UNCHANGED <<embeddedFailures, options, clusterResults, config, store>>
  /\ UNCHANGED outsidePipeline

\* fetchFailures rejects: detect() rejects with the same error
FetchReject ==
  /\ pc = "fetching"
  /\ calls' = Append(calls, [op |-> "fetchFailures.rejected",
                             arg |-> "fetch error"])
  /\ returned' = Rejected("fetch error")
  /\ pc' = "rejected"
  /\ UNCHANGED <<embeddedFailures, options, clusterResults, config,
                 fetchedFailures, store>>
  /\ UNCHANGED outsidePipeline

\* the enhanced failures of this run, as extractPatterns returned them
Enhanced ==
  LET at == {i \in 1..Len(calls) : calls[i].op = "extractPatterns"}
      first == CHOOSE i \in at : \A j \in at : i <= j
  IN [i \in 1..Cardinality(at) |-> calls[first + i - 1].result]

\* embedBatch resolves: the rest of embedFailures, step 4, and step 5 up to
\* "await this.dataAdapter.saveClusters(clusters)"
EmbedResolve ==
  /\ pc = "embedding"
  /\ \E embeddings \in [1..Len(Enhanced) -> EmbeddingVectors] :
       LET embedded == Combine(Enhanced, embeddings)
           clusters == clusterFailures(embedded, config.clustering, 0)
       IN /\ embeddedFailures' = embedded
          /\ clusterResults' = clusters
          /\ calls' = calls \o
               <<[op |-> "embedBatch.resolved", arg |-> embeddings],
                 [op |-> "clusterFailures", arg |-> embedded,
                  result |-> clusters],
                 [op |-> "saveClusters", arg |-> clusters]>>
  /\ pc' = "saving"
  /\ UNCHANGED <<options, config, fetchedFailures, returned, store>>
  /\ UNCHANGED outsidePipeline

\* embedBatch rejects and the error is swallowed: the run resolves empty
EmbedRejectSwallowed ==
  /\ pc = "embedding"
  /\ calls' = Append(calls, [op |-> "embedBatch.rejected",
                             arg |-> "embedding error"])
  /\ returned' = Resolved(<<>>)
  /\ pc' = "resolved"
  /\ UNCHANGED <<embeddedFailures, options, clusterResults, config,
                 fetchedFailures, store>>
  /\ UNCHANGED outsidePipeline

\* embedBatch rejects
EmbedReject ==
  /\ pc = "embedding"
  /\ calls' = Append(calls, [op |-> "embedBatch.rejected",
                             arg |-> "embedding error"])
  /\ returned' = Rejected("embedding error")
  /\ pc' = "rejected"
  /\ UNCHANGED <<embeddedFailures, options, clusterResults, config,
                 fetchedFailures, store>>
  /\ UNCHANGED outsidePipeline

\* saveClusters resolves: "return clusters"
SaveResolve ==
  /\ pc = "saving"
  /\ store' = MergeById(store, clusterResults)
  /\ calls' = Append(calls, [op |-> "saveClusters.resolved",
                             arg |-> EmptyObject])
  /\ returned' = Resolved(clusterResults)
  /\ pc' = "resolved"
  /\ UNCHANGED <<embeddedFailures, options, clusterResults, config,
                 fetchedFailures>>
  /\ UNCHANGED outsidePipeline

\* saveClusters rejects
SaveReject ==
  /\ pc = "saving"
  /\ calls' = Append(calls, [op |-> "saveClusters.rejected",
                             arg |-> "save error"])
  /\ returned' = Rejected("save error")
  /\ pc' = "rejected"
  /\ UNCHANGED <<embeddedFailures, options, clusterResults, config,
                 fetchedFailures, store>>
  /\ UNCHANGED outsidePipeline

Next ==
  \/ DetectCall
  \/ FetchResolve
  \/ FetchReject
  \/ EmbedResolve
  \/ EmbedReject
  \/ SaveResolve
  \/ SaveReject

Spec == Init /\ [][Next]_vars

(***************************************************************************)
(* SpecExtract: extractPatterns applied to a failure, and applied again to *)
(* what it returned.                                                       *)
(***************************************************************************)
\* a message every heuristic of the extractor matches
RichMessage ==
  "Error: Timed out 5000ms waiting\nExpected: \"foo\"\nActual: \"bar\"\n> expect(element).toBeVisible({ timeout: 30 })\nat test.spec.ts:42:3"

\* the errorMessage part of a failure: present, empty or absent
MessageParts ==
  {[errorMessage |-> RichMessage],
   [errorMessage |-> ""],
   [errorMessage |-> "Error: Test failed\nat a.ts line 7"],
   [errorMessage |-> "Error: plain"],
   EmptyObject}

\* the location part of a metadata
LocationParts ==
  {EmptyObject,
   [filePath |-> "existing-path.ts", lineNumber |-> "24",
    errorSnippets |-> <<"> existing()">>],
   [errorSnippets |-> <<"> expect(page).toHaveURL('x')">>],
   [filePath |-> "", lineNumber |-> "24"],
   [filePath |-> "existing-path.ts", errorSnippets |-> <<>>]}

\* the framework part of a metadata
FrameworkParts ==
  {EmptyObject,
   [locator |-> "existingLocator", matcher |-> "existingMatcher",
    actualValue |-> "existingActual", expectedValue |-> "existingExpected"],
   [locator |-> "existingLocator", matcher |-> "existingMatcher",
    actualValue |-> "existingActual", expectedValue |-> "existingExpected",
    timeoutMs |-> 100],
   [locator |-> "existingLocator", timeoutMs |-> 100],
   [timeoutMs |-> 0],
   [matcher |-> "", expectedValue |-> "existingExpected"]}

\* the part of a metadata the extractor never reads
OtherParts == {EmptyObject, [projectName |-> "test", suite |-> "checkout"]}

ExtractMetadatas ==
  {(l @@ f) @@ o : l \in LocationParts, f \in FrameworkParts, o \in OtherParts}

BaseFailure ==
  [id |-> "failure-1", testId |-> "test-1", testTitle |-> "Test Title 1",
   timestamp |-> "2024-01-01"]

\* failures with and without errorMessage, with and without metadata
ExtractInputs ==
  {e @@ With(BaseFailure, "metadata", m) :
     m \in ExtractMetadatas, e \in MessageParts}
  \cup {e @@ BaseFailure : e \in MessageParts}

Threw(result) == Has(result, "threw")

InitExtract ==
  /\ pc = "extract"
  /\ extractInput \in ExtractInputs
  /\ extractPasses = <<>>
  /\ NothingOutsideExtract

\* one call: extractPatterns(failure) returns or throws
PassOver(failure) ==
  /\ extractPasses' = Append(extractPasses, extractPatterns(failure))
  /\ pc' = IF Threw(extractPatterns(failure)) THEN "threw"
           ELSE IF extractPasses = <<>> THEN "extracted" ELSE "extractedTwice"
  /\ UNCHANGED extractInput
  /\ UNCHANGED outsideExtract

\* extractPatterns(failure)
ExtractCall ==
  /\ pc = "extract"
  /\ PassOver(extractInput)

\* extractPatterns(extractPatterns(failure))
ExtractAgain ==
  /\ pc = "extracted"
  /\ PassOver(extractPasses[1])

NextExtract ==
  \/ ExtractCall
  \/ ExtractAgain

SpecExtract == InitExtract /\ [][NextExtract]_vars

(***************************************************************************)
(* The context builders applied to failures: createRichEmbeddingContext    *)
(* as embedFailures calls it, createPlaywrightEmbeddingContext with a      *)
(* weighting configuration.                                                *)
(***************************************************************************)
ProjectParts == {EmptyObject, [projectName |-> "chromium"], [projectName |-> ""]}

SuiteParts ==
  {EmptyObject, [suite |-> "Auth"], [testPath |-> <<"Auth", "Login">>],
   [testPath |-> <<>>]}

WhereParts ==
  {EmptyObject, [filePath |-> "a.ts"], [lineNumber |-> "42"],
   [filePath |-> "a.ts", lineNumber |-> "42"],
   [filePath |-> "", lineNumber |-> "42"]}

SelectorParts ==
  {EmptyObject, [locator |-> "button"], [selector |-> "div.x"],
   [selector |-> "div.x", locator |-> "button"], [locator |-> ""]}

MatcherParts == {EmptyObject, [matcher |-> "toBeVisible"], [matcher |-> ""]}

ValueParts ==
  {EmptyObject, [expectedValue |-> "5", actualValue |-> "4"],
   [expectedValue |-> ""]}

TimeoutParts == {EmptyObject, [timeoutMs |-> 5000], [timeoutMs |-> 0]}

SnippetParts ==
  {EmptyObject, [errorSnippets |-> <<>>],
   [errorSnippets |-> <<"> expect(a)", "> at b">>], [errorSnippets |-> <<"">>]}

\* every attribute of a failure's metadata populated
FullMetadata ==
  [projectName |-> "chromium", suite |-> "Auth",
   testPath |-> <<"Auth", "Login">>, filePath |-> "a.ts", lineNumber |-> "42",
   locator |-> "button", selector |-> "div.x", matcher |-> "toBeVisible",
   expectedValue |-> "5", actualValue |-> "4", timeoutMs |-> 5000,
   errorSnippets |-> <<"> expect(a)", "> at b">>]

\* the keys one family of parts ranges over
KeysOf(parts) == UNION {DOMAIN part : part \in parts}

\* the metadata that differ from a background in one family of parts
Varying(parts, background) ==
  {part @@ [k \in DOMAIN background \ KeysOf(parts) |-> background[k]] :
     part \in parts}

PartFamilies ==
  {ProjectParts, SuiteParts, WhereParts, SelectorParts, MatcherParts,
   ValueParts, TimeoutParts, SnippetParts}

ContextMetadatas ==
  UNION {Varying(parts, FullMetadata) \cup Varying(parts, EmptyObject) :
           parts \in PartFamilies}

\* title and error text of the failures, the empty ones among them
ContextTexts ==
  {[testTitle |-> "Login works", errorMessage |-> "Error: Timeout exceeded"],
   [testTitle |-> "", errorMessage |-> "Error: Timeout exceeded"],
   [testTitle |-> "Login works", errorMessage |-> ""]}

ContextFailures ==
  {[id |-> "failure-1", testId |-> "test-1", testTitle |-> text.testTitle,
    errorMessage |-> text.errorMessage, timestamp |-> "2024-01-01",
    metadata |-> metadata] :
     text \in ContextTexts, metadata \in ContextMetadatas}

\* the weights explored, in tenths
Weights == {w \in 0..MaxWeight : w % 5 = 0 \/ w % 10 \in {4, 8}}

ContextConfigs ==
  {PLAYWRIGHT_EMBEDDING_DEFAULTS,
   [dimensions |-> 768, modelName |-> "default"],
   [dimensions |-> 768, modelName |-> "default", selectors |-> [weight |-> 30],
    timeouts |-> [weight |-> 20], assertions |-> [weight |-> 10]]}
  \cup {[dimensions |-> 768, modelName |-> "default",
         selectors |-> [weight |-> w], timeouts |-> [weight |-> w],
         assertions |-> [weight |-> w]] : w \in Weights}

InitContext ==
  /\ pc = "context"
  /\ \E failure \in ContextFailures, cfg \in ContextConfigs :
       contextArgs = [failure |-> failure, config |-> cfg]
  /\ contextString = ""
  /\ NothingOutsideContext

\* createRichEmbeddingContext(failure.testTitle, failure.errorMessage,
\* failure.metadata), the call embedFailures makes
RichContextCall ==
  /\ pc = "context"
  /\ contextString' =
       createRichEmbeddingContext(contextArgs.failure.testTitle,
                                  contextArgs.failure.errorMessage,
                                  contextArgs.failure.metadata)
  /\ pc' = "rich"
  /\ UNCHANGED contextArgs
  /\ UNCHANGED outsideContext

\* createPlaywrightEmbeddingContext(failure, config)
PlaywrightContextCall ==
  /\ pc = "context"
  /\ contextString' =
       createPlaywrightEmbeddingContext(contextArgs.failure, contextArgs.config)
  /\ pc' = "playwright"
  /\ UNCHANGED contextArgs
  /\ UNCHANGED outsideContext

\* the constructor of PlaywrightEmbeddingProvider: this.config, the defaults
\* overridden by config, each weight config.<feature>?.weight ?? the default
PlaywrightEmbeddingProviderConfig(cfg) ==
  [k \in DOMAIN PLAYWRIGHT_EMBEDDING_DEFAULTS \cup DOMAIN cfg |->
     IF k \in {"selectors", "timeouts", "assertions"}
     THEN [weight |-> IF Has(cfg, k) THEN cfg[k].weight
                      ELSE PLAYWRIGHT_EMBEDDING_DEFAULTS[k].weight]
     ELSE IF Has(cfg, k) THEN cfg[k] ELSE PLAYWRIGHT_EMBEDDING_DEFAULTS[k]]

\* PlaywrightEmbeddingProvider.embedPlaywrightFailures(failures): the
\* contents it hands to embedBatch
embedPlaywrightFailures(failures, cfg) ==
  [i \in 1..Len(failures) |->
     createPlaywrightEmbeddingContext(failures[i], cfg)]

\* PlaywrightEmbeddingProvider.embedBatch(contents): the contents handed to
\* this.baseProvider.embedBatch
PlaywrightEmbedBatch(texts) == texts

\* FlakinessDetective.embedFailures(failures) with the Playwright provider as
\* this.embeddingProvider: the contents that reach the base provider
embedFailures(failures) == PlaywrightEmbedBatch(Contexts(failures))

\* PlaywrightFlakinessDetective.detect() for one fetched failure, up to the
\* call of the base provider's embedBatch: extractPatterns, embedFailures
PlaywrightDetectCall ==
  /\ pc = "context"
  /\ contextString' =
       embedFailures(<<extractPatterns(contextArgs.failure)>>)[1]
  /\ pc' = "detected"
  /\ UNCHANGED contextArgs
  /\ UNCHANGED outsideContext

NextContext ==
  \/ RichContextCall
  \/ PlaywrightContextCall
  \/ PlaywrightDetectCall

SpecContext == InitContext /\ [][NextContext]_vars

(***************************************************************************)
(* GoogleGenAIProvider.embedBatch: batches of batchSize embedContent calls *)
(* issued together and awaited with Promise.all, a delay between batches.  *)
(* The calls of a batch settle in any order.                               *)
(***************************************************************************)
batchSize == 5

TextOf(k) == "Content " \o ToString(k)

\* what the model answers for a text: no values for the empty text
modelEmbedContent(content) ==
  IF content = "" THEN [embedding |-> EmptyObject]
  ELSE [embedding |->
          [values |-> <<CHOOSE k \in 1..(MaxContents + 1) : content = TextOf(k)>>]]

\* embedContent(content) when the model answers: embedding.values || []
embedContent(content) ==
  IF Has(modelEmbedContent(content).embedding, "values")
  THEN modelEmbedContent(content).embedding.values
  ELSE <<>>

BatchInputs ==
  {[k \in 1..n |-> TextOf(k)] : n \in 0..MaxContents}
  \cup {Reverse([k \in 1..n |-> TextOf(k)]) : n \in 2..MaxContents}
  \cup {<<"Content 1", "", "Content 1">>}

\* the values of the batch's promises in the order the calls completed
PromiseAllByCompletion(first, last, settled) ==
  [j \in 1..Len(settled) |-> settled[j].value]

\* Promise.all(batchPromises): the values in the order of the promises
PromiseAll(first, last, settled) ==
  [j \in 1..(last - first + 1) |->
     settled[CHOOSE c \in 1..Len(settled) : settled[c].index = first + j - 1].value]

InitBatch ==
  /\ pc = "embedBatch"
  /\ contents \in BatchInputs
  /\ batchStart = 0
  /\ inFlight = {}
  /\ completed = <<>>
  /\ results = <<>>
  /\ batchOutcome = <<>>
  /\ NothingOutsideBatch

\* every remaining text handed to embedContent at once
IssueBatchUnbounded(i) ==
  /\ batchStart' = i
  /\ inFlight' = (i + 1)..Len(contents)
  /\ completed' = <<>>
  /\ pc' = "awaitAll"
  /\ UNCHANGED <<contents, results, batchOutcome>>

\* contents.slice(i, i + batchSize) mapped to embedContent calls, up to
\* "await Promise.all(batchPromises)"
IssueBatch(i) ==
  /\ batchStart' = i
  /\ inFlight' = (i + 1)..Min(i + batchSize, Len(contents))
  /\ completed' = <<>>
  /\ pc' = "awaitAll"
  /\ UNCHANGED <<contents, results, batchOutcome>>

\* embedBatch(contents) up to its first await, or to its return when the list
\* is empty
EmbedBatchCall ==
  /\ pc = "embedBatch"
  /\ IF 0 < Len(contents)
     THEN IssueBatch(0)
     ELSE /\ batchOutcome' = Resolved(results)
          /\ pc' = "batchResolved"
          /\ UNCHANGED <<contents, batchStart, inFlight, completed, results>>
  /\ UNCHANGED outsideBatch

\* one embedContent call of the batch resolves
EmbedContentResolve ==
  /\ pc = "awaitAll"
  /\ \E k \in inFlight :
       /\ completed' = Append(completed,
                              [index |-> k, value |-> embedContent(contents[k])])
       /\ inFlight' = inFlight \ {k}
  /\ UNCHANGED <<pc, contents, batchStart, results, batchOutcome>>
  /\ UNCHANGED outsideBatch

\* one embedContent call of the batch throws: Promise.all rejects and so does
\* embedBatch
EmbedContentReject ==
  /\ pc = "awaitAll"
  /\ \E k \in inFlight :
       /\ batchOutcome' = Rejected("Failed to generate embedding")
       /\ inFlight' = inFlight \ {k}
  /\ pc' = "batchRejected"
  /\ UNCHANGED <<contents, batchStart, completed, results>>
  /\ UNCHANGED outsideBatch

\* Promise.all resolves: results.push(...batchResults), then the delay or
\* the return
PromiseAllResolve ==
  /\ pc = "awaitAll"
  /\ inFlight = {}
  /\ results' = results \o PromiseAll(batchStart + 1,
                                      Min(batchStart + batchSize, Len(contents)),
                                      completed)
  /\ IF batchStart + batchSize < Len(contents)
     THEN /\ pc' = "delay"
          /\ UNCHANGED batchOutcome
     ELSE /\ pc' = "batchResolved"
          /\ batchOutcome' = Resolved(results')
  /\ UNCHANGED <<contents, batchStart, inFlight, completed>>
  /\ UNCHANGED outsideBatch

\* the 100 ms timer fires: i += batchSize and the next batch is issued
DelayElapsed ==
  /\ pc = "delay"
  /\ IssueBatch(batchStart + batchSize)
  /\ UNCHANGED outsideBatch

NextBatch ==
  \/ EmbedBatchCall
  \/ EmbedContentResolve
  \/ EmbedContentReject
  \/ PromiseAllResolve
  \/ DelayElapsed

SpecBatch == InitBatch /\ [][NextBatch]_vars

(***************************************************************************)
(* The data adapters: InMemoryAdapter keeps the clusters in a field,       *)
(* FileSystemAdapter in a JSON file.  JSON text is modelled as the list of *)
(* the objects' <<key, value>> members in the order they are written.      *)
(***************************************************************************)
\* createTestCluster(id, count) of the adapter tests
createTestCluster(id, count) ==
  [id |-> id,
   title |-> "Cluster " \o id,
   count |-> count,
   failurePattern |-> "Common pattern for " \o id,
   assertionPattern |-> "Assertion pattern for " \o id]

\* the keys of a FailureCluster in the order clusterFailures writes them
ClusterKeys == <<"id", "title", "count", "failurePattern", "assertionPattern">>

\* the lists handed to saveClusters: the tests' list, lists that bring an id
\* again with another count, one that holds an id twice, a cluster whose
\* assertionPattern is undefined
SaveLists ==
  {<<>>,
   <<createTestCluster("cluster-1", 3), createTestCluster("cluster-2", 5)>>,
   <<createTestCluster("cluster-2", 1)>>,
   <<createTestCluster("cluster-3", 3), createTestCluster("cluster-1", 4)>>,
   <<createTestCluster("cluster-1", 2), createTestCluster("cluster-1", 6)>>,
   <<Without(createTestCluster("cluster-4", 5), "assertionPattern")>>,
   <<createTestCluster("cluster-5", 1), createTestCluster("cluster-3", 2),
     createTestCluster("cluster-2", 3)>>}

\* fetchClusters() and fetchClusters(limit)
FetchArgs == {EmptyObject} \cup {[limit |-> n] : n \in 0..MaxLimit}

\* the keys of an object whose value is not undefined, in writing order
definedKeys(obj) == SelectSeq(ClusterKeys, LAMBDA k : Has(obj, k))

\* the members JSON.stringify writes for the keys of an object
membersOf(obj, keys) == [j \in 1..Len(keys) |-> <<keys[j], obj[keys[j]]>>]

\* JSON.stringify(mergedClusters, null, 2)
JSONStringify(list) ==
  [i \in 1..Len(list) |-> membersOf(list[i], definedKeys(list[i]))]

\* JSON.parse of one object
ParseObject(text) ==
  [k \in {text[j][1] : j \in 1..Len(text)} |->
     text[CHOOSE j \in 1..Len(text) : text[j][1] = k][2]]

\* JSON.parse(data)
JSONParse(data) == [i \in 1..Len(data) |-> ParseObject(data[i])]

NoFile == [exists |-> FALSE]

\* existingClusters of FileSystemAdapter.saveClusters: [] when readFile throws
existingClusters(file) == IF file.exists THEN JSONParse(file.data) ELSE <<>>

\* array.slice(0, end) for 0 <= end
slice(list, end) == SubSeq(list, 1, Min(end, Len(list)))

\* limit ? sortedClusters.slice(0, limit) : sortedClusters
limited(sortedClusters, args) ==
  IF Has(args, "limit") /\ args.limit # 0
  THEN slice(sortedClusters, args.limit)
  ELSE sortedClusters

InitStore ==
  /\ pc = "store"
  /\ adapterKind \in {"InMemoryAdapter", "FileSystemAdapter"}
  /\ memoryClusters = <<>>
  /\ clustersFile = NoFile
  /\ saveLog = <<>>
  /\ fetchArgs = EmptyObject
  /\ fetchedClusters = <<>>
  /\ NothingOutsideStore

\* InMemoryAdapter.saveClusters(clusters)
MemorySaveClusters ==
  /\ pc = "store"
  /\ adapterKind = "InMemoryAdapter"
  /\ Len(saveLog) < MaxSaves
  /\ \E list \in SaveLists :
       /\ memoryClusters' = MergeById(memoryClusters, list)
       /\ saveLog' = Append(saveLog, list)
  /\ UNCHANGED <<pc, adapterKind, clustersFile, fetchArgs, fetchedClusters>>
  /\ UNCHANGED outsideStore

\* FileSystemAdapter.saveClusters(clusters), awaited before the next call
FileSaveClusters ==
  /\ pc = "store"
  /\ adapterKind = "FileSystemAdapter"
  /\ Len(saveLog) < MaxSaves
  /\ \E list \in SaveLists :
       /\ clustersFile' =
            [exists |-> TRUE,
             data |-> JSONStringify(MergeById(existingClusters(clustersFile),
                                              list))]
       /\ saveLog' = Append(saveLog, list)
  /\ UNCHANGED <<pc, adapterKind, memoryClusters, fetchArgs, fetchedClusters>>
  /\ UNCHANGED outsideStore

\* InMemoryAdapter.fetchClusters(limit)
MemoryFetchClusters ==
  /\ pc = "store"
  /\ adapterKind = "InMemoryAdapter"
  /\ \E args \in FetchArgs :
       /\ fetchArgs' = args
       /\ fetchedClusters' = limited(SortByCountDesc(memoryClusters), args)
  /\ pc' = "fetchedClusters"
  /\ UNCHANGED <<adapterKind, memoryClusters, clustersFile, saveLog>>
  /\ UNCHANGED outsideStore

\* FileSystemAdapter.fetchClusters(limit)
FileFetchClusters ==
  /\ pc = "store"
  /\ adapterKind = "FileSystemAdapter"
  /\ \E args \in FetchArgs :
       /\ fetchArgs' = args
       /\ fetchedClusters' =
            IF clustersFile.exists
            THEN limited(SortByCountDesc(JSONParse(clustersFile.data)), args)
            ELSE <<>>
  /\ pc' = "fetchedClusters"
  /\ UNCHANGED <<adapterKind, memoryClusters, clustersFile, saveLog>>
  /\ UNCHANGED outsideStore

NextStore ==
  \/ MemorySaveClusters
  \/ FileSaveClusters
  \/ MemoryFetchClusters
  \/ FileFetchClusters

SpecStore == InitStore /\ [][NextStore]_vars

(***************************************************************************)
(* Two calls of FileSystemAdapter.saveClusters on one clusters file, not   *)
(* awaited one before the other.  A call has two steps the event loop can  *)
(* interleave with the other call's: readFile resolves and the call runs   *)
(* on to writeFile; writeFile replaces the file and the call resolves.     *)
(***************************************************************************)
\* what the file holds before the two calls
InitialFiles ==
  {NoFile,
   [exists |-> TRUE,
    data |-> JSONStringify(<<createTestCluster("cluster-1", 9),
                             createTestCluster("cluster-0", 1)>>)]}

InitOverlap ==
  /\ pc = "overlap"
  /\ sharedFile \in InitialFiles
  /\ \E lists \in [1..MaxSavers -> SaveLists] :
       savers = [i \in 1..MaxSavers |->
                   [clusters |-> lists[i],
                    at |-> "readFile",
                    mergedClusters |-> <<>>]]
  /\ NothingOutsideOverlap

\* "await fs.readFile" of call i settles: existingClusters, the merge into
\* clusterMap, and the call of fs.writeFile
SaveClustersRead(i) ==
  /\ pc = "overlap"
  /\ savers[i].at = "readFile"
  /\ savers' = [savers EXCEPT
                  ![i].mergedClusters =
                    MergeById(existingClusters(sharedFile), savers[i].clusters),
                  ![i].at = "writeFile"]
  /\ UNCHANGED <<pc, sharedFile>>
  /\ UNCHANGED outsideOverlap

\* "await fs.writeFile" of call i settles: the file holds the call's merged
\* list and saveClusters resolves
SaveClustersWrite(i) ==
  /\ pc = "overlap"
  /\ savers[i].at = "writeFile"
  /\ sharedFile' =
       [exists |-> TRUE,
        data |-> JSONStringify(savers[i].mergedClusters)]
  /\ savers' = [savers EXCEPT ![i].at = "resolved"]
  /\ UNCHANGED pc
  /\ UNCHANGED outsideOverlap

NextOverlap ==
  \/ \E i \in 1..MaxSavers : SaveClustersRead(i)
  \/ \E i \in 1..MaxSavers : SaveClustersWrite(i)

SpecOverlap == InitOverlap /\ [][NextOverlap]_vars

(***************************************************************************)
(* Successive runs: clusterFailures is called again and again, each run's  *)
(* clusters being saved by InMemoryAdapter.saveClusters.  Date.now() has   *)
(* millisecond resolution: time may or may not advance between two runs.   *)
(***************************************************************************)
RunInputs ==
  {ScenarioA, ScenarioE,
   [failures |-> VectorFailures(<<0, 0, 3, 3>>),
    options |-> [epsilon |-> 1, minPoints |-> 1, minClusterSize |-> 1]],
   [failures |-> VectorFailures(<<0, 0, 0>>),
    options |-> [epsilon |-> 1, minPoints |-> 1, minClusterSize |-> 1]],
   [failures |-> <<>>, options |-> DEFAULT_CLUSTERING_OPTIONS]}

InitRuns ==
  /\ pc = "runs"
  /\ clock = 0
  /\ runResults = <<>>
  /\ runStore = <<>>
  /\ NothingOutsideRuns

\* a millisecond passes
Tick ==
  /\ pc = "runs"
  /\ clock < MaxClock
  /\ clock' = clock + 1
  /\ UNCHANGED <<pc, runResults, runStore>>
  /\ UNCHANGED outsideRuns

\* the clusters of a run are returned and saved
Saved(clusters) ==
  /\ runResults' = Append(runResults, clusters)
  /\ runStore' = MergeById(runStore, clusters)

\* clusterFailures(failures, options) followed by saveClusters(clusters)
ClusterAndSave ==
  /\ pc = "runs"
  /\ Len(runResults) < MaxRuns
  /\ \E in \in RunInputs : Saved(clusterFailures(in.failures, in.options, clock))
  /\ UNCHANGED <<pc, clock>>
  /\ UNCHANGED outsideRuns

NextRuns ==
  \/ Tick
  \/ ClusterAndSave

SpecRuns == InitRuns /\ [][NextRuns]_vars

(***************************************************************************)
(* FirestoreAdapter: saveFailures writes one document per failure to the   *)
(* failures collection, fetchFailures queries the collection and maps each *)
(* document back.  A date is a day of January 2024; today is the 9th.      *)
(***************************************************************************)
Today == 9

\* new Date(timestamp) for the dates "2024-01-0N"
DateOf(timestamp) ==
  CHOOSE n \in 1..9 : timestamp = "2024-01-0" \o ToString(n)

\* this.db.Timestamp.fromDate(date)
TimestampFromDate(day) == [toDate |-> day]

\* date.toISOString()
DateToISOString(day) == "2024-01-0" \o ToString(day) \o "T00:00:00.000Z"

\* failureData of saveFailures: { ...failure, timestamp, status, createdAt }
failureData(failure) ==
  With(With(With(failure, "timestamp",
                 TimestampFromDate(DateOf(failure.timestamp))),
            "status", "failed"),
       "createdAt", TimestampFromDate(Today))

\* the fields of a map written over those of the stored map; a nested map
\* (metadata) is merged field by field
mergeFields(stored, written) ==
  [k \in DOMAIN stored \cup DOMAIN written |->
     IF ~Has(written, k) THEN stored[k]
     ELSE IF k = "metadata" /\ Has(stored, k) THEN written[k] @@ stored[k]
     ELSE written[k]]

\* batch.set(docRef, failureData, { merge: true }) on the collection
batchSet(collection, docId, data) ==
  IF \E i \in 1..Len(collection) : collection[i].id = docId
  THEN [i \in 1..Len(collection) |->
          IF collection[i].id = docId
          THEN [id |-> docId, data |-> mergeFields(collection[i].data, data)]
          ELSE collection[i]]
  ELSE Append(collection, [id |-> docId, data |-> data])

\* failures.forEach(failure => batch.set(...)) followed by batch.commit()
RECURSIVE saveFailures(_, _)
saveFailures(collection, failures) ==
  IF failures = <<>> THEN collection
  ELSE saveFailures(batchSet(collection, Head(failures).id,
                             failureData(Head(failures))),
                    Tail(failures))

\* extractErrorSnippets(message)
extractErrorSnippets(message) ==
  IF message = "" THEN <<>> ELSE SelectSeq(split(message), IsSnippetLine)

\* metadata with key set to data[first] || data[second]; the key holds
\* undefined, modelled as the key being absent, when neither field is there
assignEither(metadata, key, data, first, second) ==
  IF IsTruthy(data, first) THEN With(metadata, key, data[first])
  ELSE IF Has(data, second) THEN With(metadata, key, data[second])
  ELSE IF Has(data, first) THEN With(metadata, key, data[first])
  ELSE Without(metadata, key)

\* the root-level fields mapDocumentToFailure assigns after the spread of
\* data.metadata, as <<key, first field, second field>>
RootFields ==
  << <<"projectName", "projectName", "project">>,
     <<"suite", "suite", "suite">>,
     <<"filePath", "filePath", "file">>,
     <<"lineNumber", "lineNumber", "line">>,
     <<"actualValue", "actualValue", "actual">>,
     <<"expectedValue", "expectedValue", "expected">>,
     <<"locator", "locator", "locator">>,
     <<"matcher", "matcher", "matcher">>,
     <<"timeoutMs", "timeoutMs", "timeout">>,
     <<"reportLink", "reportLink", "reportLink">>,
     <<"runId", "runId", "runId">> >>

RECURSIVE assignRootFields(_, _, _)
assignRootFields(metadata, data, fields) ==
  IF fields = <<>> THEN metadata
  ELSE assignRootFields(assignEither(metadata, Head(fields)[1], data,
                                     Head(fields)[2], Head(fields)[3]),
                        data, Tail(fields))

\* data[first] || data[second] || fallback, for string fields
firstTruthy(data, first, second, fallback) ==
  IF IsTruthy(data, first) THEN data[first]
  ELSE IF IsTruthy(data, second) THEN data[second]
  ELSE fallback

\* mapDocumentToFailure(docId, data, timestamp); data.errorSnippets is an
\* array when it is there, hence truthy
mapDocumentToFailure(docId, data, timestamp) ==
  [id |-> docId,
   testId |-> firstTruthy(data, "testId", "id", docId),
   testTitle |-> firstTruthy(data, "testTitle", "title", "Unknown Test"),
   errorMessage |-> firstTruthy(data, "errorMessage", "error", ""),
   timestamp |-> timestamp,
   metadata |->
     With(assignRootFields(IF Has(data, "metadata") THEN data.metadata
                           ELSE EmptyObject,
                           data, RootFields),
          "errorSnippets",
          IF Has(data, "errorSnippets") THEN data.errorSnippets
          ELSE extractErrorSnippets(firstTruthy(data, "errorMessage",
                                                "error", "")))]

\* the default query of fetchFailures: timestamp >= cutoff and, when a status
\* filter is configured, status == filter
matchesQuery(data, query) ==
  /\ data.timestamp.toDate >= Today - query.days
  /\ Has(query, "failureStatusFilter") =>
       data.status = query.failureStatusFilter

\* snapshot.forEach: data.timestamp.toDate().toISOString(), then the mapping
fetchFailures(collection, query) ==
  LET snapshot == SelectSeq(collection,
                            LAMBDA doc : matchesQuery(doc.data, query))
  IN [i \in 1..Len(snapshot) |->
        mapDocumentToFailure(snapshot[i].id, snapshot[i].data,
                             DateToISOString(snapshot[i].data.timestamp.toDate))]

\* the attributes a failure may carry under metadata
StoredMetadatas ==
  {EmptyObject,
   [projectName |-> "chromium", suite |-> "Auth", filePath |-> "a.ts",
    lineNumber |-> "42", locator |-> "button", matcher |-> "toBeVisible",
    expectedValue |-> "5", actualValue |-> "4", timeoutMs |-> 5000,
    errorSnippets |-> <<"> expect(a)">>],
   [projectName |-> "firefox", selector |-> "div.x"],
   [timeoutMs |-> 30, errorSnippets |-> <<>>],
   [suite |-> "checkout", errorSnippets |-> <<"> stored()">>]}

StoredMessages ==
  {"Error: plain", "Error: Test failed\n> expect(b)\nat a.ts line 7", ""}

\* the failures handed to saveFailures; every one has an id, so that no
\* document id is generated
FirestoreFailures ==
  {[id |-> "failure-" \o ToString(n), testId |-> "test-" \o ToString(n),
    testTitle |-> "Test Title", errorMessage |-> message,
    timestamp |-> "2024-01-0" \o ToString(day), metadata |-> metadata] :
     n \in 1..2, message \in StoredMessages, day \in {1, 8},
     metadata \in StoredMetadatas}

FirestoreQueries ==
  {[days |-> 7], [days |-> 7, failureStatusFilter |-> "failed"],
   [days |-> 9, failureStatusFilter |-> "passed"], [days |-> 9]}

InitFirestore ==
  /\ pc = "firestore"
  /\ failuresCollection = <<>>
  /\ firestoreQuery = EmptyObject
  /\ fetchedBack = <<>>
  /\ NothingOutsideFirestore

\* FirestoreAdapter.saveFailures(failures)
FirestoreSaveFailures ==
  /\ pc = "firestore"
  /\ Len(failuresCollection) < MaxStored
  /\ \E failure \in FirestoreFailures :
       failuresCollection' = saveFailures(failuresCollection, <<failure>>)
  /\ UNCHANGED <<pc, firestoreQuery, fetchedBack>>
  /\ UNCHANGED outsideFirestore

\* FirestoreAdapter.fetchFailures(days)
FirestoreFetchFailures ==
  /\ pc = "firestore"
  /\ \E query \in FirestoreQueries :
       /\ firestoreQuery' = query
       /\ fetchedBack' = fetchFailures(failuresCollection, query)
  /\ pc' = "fetchedBack"
  /\ UNCHANGED failuresCollection
  /\ UNCHANGED outsideFirestore

NextFirestore ==
  \/ FirestoreSaveFailures
  \/ FirestoreFetchFailures

SpecFirestore == InitFirestore /\ [][NextFirestore]_vars

(***************************************************************************)
(* Properties of clusterFailures, stated on the result of ClusterCall.     *)
(***************************************************************************)
InputIds == {embeddedFailures[i].id : i \in 1..Len(embeddedFailures)}

IndexOfId(id) ==
  CHOOSE i \in 1..Len(embeddedFailures) : embeddedFailures[i].id = id

InputVectors == [i \in 1..Len(embeddedFailures) |-> embeddedFailures[i].vector]

\* the density groups of the input, before the size filter
Groups == DBSCAN(InputVectors, options.epsilon, options.minPoints)

Core(i) == IsCorePoint(InputVectors, i, options.epsilon, options.minPoints)

Near(i, j) == IsNeighbour(InputVectors, i, j, options.epsilon)

IdsOf(indices) == [i \in 1..Len(indices) |-> embeddedFailures[indices[i]].id]

\* the input failures that are the members of output cluster c, in order
ClusterMembers(c) ==
  [i \in 1..Len(c.failureIds) |-> embeddedFailures[IndexOfId(c.failureIds[i])]]

\* C1: every returned cluster has count = |failureIds| and
\* count >= options.minClusterSize.
C1_CountAndMinSize ==
  pc = "done" =>
    \A k \in 1..Len(clusterResults) :
      /\ clusterResults[k].count = Len(clusterResults[k].failureIds)
      /\ clusterResults[k].count >= options.minClusterSize

\* a cluster of exactly the minimum size is returned while a smaller density
\* group was formed and left out
C1_Witness ==
  /\ pc = "done"
  /\ options.minClusterSize > 1
  /\ \E k \in 1..Len(clusterResults) :
       clusterResults[k].count = options.minClusterSize
  /\ \E g \in 1..Len(Groups) :
       Len(Groups[g]) = options.minClusterSize - 1

\* C2: the returned clusters do not overlap: every member is an input
\* failure, no failure is listed twice in one cluster, and no failure is a
\* member of two clusters.
C2_NoOverlap ==
  pc = "done" =>
    /\ \A k \in 1..Len(clusterResults) :
         LET ids == clusterResults[k].failureIds
         IN /\ Range(ids) \subseteq InputIds
            /\ \A i, j \in 1..Len(ids) : i # j => ids[i] # ids[j]
    /\ \A k, l \in 1..Len(clusterResults) :
         k # l => Range(clusterResults[k].failureIds)
                    \cap Range(clusterResults[l].failureIds) = {}

\* two clusters are returned and a border point lies within epsilon of a core
\* point of each of them
C2_Witness ==
  /\ pc = "done"
  /\ \E k, l \in 1..Len(clusterResults) :
       /\ k # l
       /\ \E b, p, q \in 1..Len(embeddedFailures) :
            /\ ~Core(b) /\ Core(p) /\ Core(q)
            /\ Near(b, p) /\ Near(b, q)
            /\ embeddedFailures[p].id \in Range(clusterResults[k].failureIds)
            /\ embeddedFailures[q].id \in Range(clusterResults[l].failureIds)
            /\ embeddedFailures[b].id \in Range(clusterResults[k].failureIds)

\* C3: noise is excluded: a member of a returned cluster is a core point or
\* lies within epsilon of a core point of the same cluster, and a failure
\* within epsilon of no core point is in no returned cluster.
C3_NoiseExcluded ==
  pc = "done" =>
    LET points == 1..Len(embeddedFailures)
        cores == {i \in points : Core(i)}
        reached == {i \in points : \E p \in cores : Near(i, p)}
    IN /\ \A k \in 1..Len(clusterResults) :
            LET members == {IndexOfId(id) :
                              id \in Range(clusterResults[k].failureIds)}
            IN \A m \in members :
                 \/ m \in cores
                 \/ \E p \in members \cap cores : Near(m, p)
       /\ \A i \in points \ reached :
            \A k \in 1..Len(clusterResults) :
              embeddedFailures[i].id \notin Range(clusterResults[k].failureIds)

\* a cluster with a border member is returned while the input holds a noise
\* point
C3_Witness ==
  /\ pc = "done"
  /\ \E k \in 1..Len(clusterResults) :
       \E id \in Range(clusterResults[k].failureIds) : ~Core(IndexOfId(id))
  /\ \E i \in 1..Len(embeddedFailures) :
       /\ ~Core(i)
       /\ \A p \in 1..Len(embeddedFailures) : Core(p) => ~Near(i, p)

\* C4: a density group with fewer than minClusterSize members is dropped
\* whole: none of its members is in a returned cluster, and the returned
\* clusters are exactly the remaining density groups, member for member.
C4_UndersizedDropped ==
  pc = "done" =>
    LET groups == Groups
        retained == {h \in 1..Len(groups) :
                       Len(groups[h]) >= options.minClusterSize}
    IN /\ \A g \in (1..Len(groups)) \ retained :
            \A k \in 1..Len(clusterResults) :
              Range(IdsOf(groups[g]))
                \cap Range(clusterResults[k].failureIds) = {}
       /\ {clusterResults[k].failureIds : k \in 1..Len(clusterResults)}
            = {IdsOf(groups[g]) : g \in retained}
       /\ Len(clusterResults) = Cardinality(retained)

\* an undersized group of two or more failures is formed before a group that
\* is returned
C4_Witness ==
  /\ pc = "done"
  /\ Len(clusterResults) = 1
  /\ Len(Groups) = 2
  /\ Len(Groups[1]) > 1
  /\ Len(Groups[1]) < options.minClusterSize

\* C5: the returned list is sorted by count, descending.
C5_SortedByCount ==
  pc = "done" =>
    \A k \in 1..(Len(clusterResults) - 1) :
      clusterResults[k].count >= clusterResults[k + 1].count

\* DBSCAN formed a smaller retained group before a larger one
C5_Witness ==
  /\ pc = "done"
  /\ \E g, h \in 1..Len(Groups) :
       /\ g < h
       /\ Len(Groups[g]) >= options.minClusterSize
       /\ Len(Groups[g]) < Len(Groups[h])
  /\ Len(clusterResults) >= 2

\* the number of members whose attribute key holds v
AttributeCount(members, key, v) ==
  Cardinality({i \in 1..Len(members) :
                 Has(members[i].metadata, key) /\ members[i].metadata[key] = v})

\* the number of occurrences of the snippet line v in the members' snippet lists
SnippetCount(members, v) ==
  Cardinality({ij \in (1..Len(members)) \X (1..2) :
                 /\ Has(members[ij[1]].metadata, "errorSnippets")
                 /\ ij[2] <= Len(members[ij[1]].metadata.errorSnippets)
                 /\ members[ij[1]].metadata.errorSnippets[ij[2]] = v})

\* the non-empty values of a string attribute among the members
AttributeValues(members, key) ==
  {members[i].metadata[key] :
     i \in {j \in 1..Len(members) :
              Has(members[j].metadata, key) /\ members[j].metadata[key] # ""}}

SnippetValues(members) ==
  UNION {Range(members[i].metadata.errorSnippets) :
           i \in {j \in 1..Len(members) :
                    Has(members[j].metadata, "errorSnippets")}}

TimeoutValues(members) ==
  {members[i].metadata.timeoutMs :
     i \in {j \in 1..Len(members) :
              Has(members[j].metadata, "timeoutMs")
                /\ members[j].metadata.timeoutMs > 0}}

\* list holds exactly the values whose occurrence count reaches half the size
IsConsensusOf(list, occurrences, size) ==
  /\ Range(list) \subseteq DOMAIN occurrences
  /\ \A v \in DOMAIN occurrences :
       (v \in Range(list)) <=> (2 * occurrences[v] >= size)

\* C6: for each attribute category of a returned cluster, a non-empty value
\* is in the common-list if and only if its occurrence count among the
\* members is at least ceil(0.5 * clusterSize), that is 2 * count >= size.
C6_ConsensusRule ==
  pc = "done" =>
    \A k \in 1..Len(clusterResults) :
      LET c == clusterResults[k]
          members == ClusterMembers(c)
      IN /\ IsConsensusOf(c.commonFilePaths,
                          [v \in AttributeValues(members, "filePath") |->
                             AttributeCount(members, "filePath", v)],
                          c.count)
         /\ IsConsensusOf(c.commonLineNumbers,
                          [v \in AttributeValues(members, "lineNumber") |->
                             AttributeCount(members, "lineNumber", v)],
                          c.count)
         /\ IsConsensusOf(c.commonCodeSnippets,
                          [v \in SnippetValues(members) |->
                             SnippetCount(members, v)],
                          c.count)
         /\ IsConsensusOf(c.commonLocators,
                          [v \in AttributeValues(members, "locator") |->
                             AttributeCount(members, "locator", v)],
                          c.count)
         /\ IsConsensusOf(c.commonMatchers,
                          [v \in AttributeValues(members, "matcher") |->
                             AttributeCount(members, "matcher", v)],
                          c.count)
         /\ IsConsensusOf(c.commonTimeouts,
                          [v \in TimeoutValues(members) |->
                             AttributeCount(members, "timeoutMs", v)],
                          c.count)

\* the first 100 characters of a string
First100(str) == IF Len(str) <= 100 THEN str ELSE SubSeq(str, 1, 100)

\* C7: failurePattern follows the priority order: consensus path and line,
\* else the first 100 characters of the first consensus snippet, else the
\* fixed text.
C7_FailurePattern ==
  pc = "done" =>
    \A k \in 1..Len(clusterResults) :
      LET c == clusterResults[k]
          located == c.commonFilePaths # <<>> /\ c.commonLineNumbers # <<>>
      IN /\ located =>
              c.failurePattern
                = "Common failure at " \o c.commonFilePaths[1]
                    \o ":" \o c.commonLineNumbers[1]
         /\ (~located /\ c.commonCodeSnippets # <<>>) =>
              c.failurePattern
                = "Common code pattern: "
                    \o First100(c.commonCodeSnippets[1]) \o "..."
         /\ (~located /\ c.commonCodeSnippets = <<>>) =>
              c.failurePattern = "Similar test failures"

\* a cluster with a consensus path, no consensus line and a first consensus
\* snippet longer than 100 characters
C7_Witness ==
  /\ pc = "done"
  /\ \E k \in 1..Len(clusterResults) :
       /\ clusterResults[k].commonFilePaths # <<>>
       /\ clusterResults[k].commonLineNumbers = <<>>
       /\ clusterResults[k].commonCodeSnippets # <<>>
       /\ Len(clusterResults[k].commonCodeSnippets[1]) > 100
       /\ clusterResults[k].count >= 2

\* C8: assertionPattern follows the priority order: matcher on locator, with
\* the timeout suffix exactly when a consensus timeout exists; locator only;
\* matcher only; otherwise the empty string.
C8_AssertionPattern ==
  pc = "done" =>
    \A k \in 1..Len(clusterResults) :
      LET c == clusterResults[k]
          loc == c.commonLocators # <<>>
          mat == c.commonMatchers # <<>>
          tmo == c.commonTimeouts # <<>>
      IN /\ (loc /\ mat /\ tmo) =>
              c.assertionPattern
                = c.commonMatchers[1] \o " on " \o c.commonLocators[1]
                    \o " (" \o ToString(c.commonTimeouts[1]) \o "ms timeout)"
         /\ (loc /\ mat /\ ~tmo) =>
              c.assertionPattern
                = c.commonMatchers[1] \o " on " \o c.commonLocators[1]
         /\ (loc /\ ~mat) =>
              c.assertionPattern = "Common locator: " \o c.commonLocators[1]
         /\ (~loc /\ mat) =>
              c.assertionPattern = "Common matcher: " \o c.commonMatchers[1]
         /\ (~loc /\ ~mat) => c.assertionPattern = ""

\* one cluster with a consensus locator and timeout but no consensus matcher
\* next to one whose only consensus is a timeout
C8_Witness ==
  /\ pc = "done"
  /\ \E k, l \in 1..Len(clusterResults) :
       /\ clusterResults[k].commonLocators # <<>>
       /\ clusterResults[k].commonMatchers = <<>>
       /\ clusterResults[k].commonTimeouts # <<>>
       /\ clusterResults[l].commonLocators = <<>>
       /\ clusterResults[l].commonMatchers = <<>>
       /\ clusterResults[l].commonTimeouts # <<>>

(***************************************************************************)
(* Properties of detect(), stated on the log of its calls.                 *)
(***************************************************************************)
Ops == [i \in 1..Len(calls) |-> calls[i].op]

\* the log without the rejection that ended the run, if one did
SettledOps == IF pc = "rejected" THEN SubSeq(Ops, 1, Len(Ops) - 1) ELSE Ops

IsPrefix(a, b) == Len(a) <= Len(b) /\ \A i \in 1..Len(a) : a[i] = b[i]

\* the log of a complete run over n fetched failures
ExpectedOps(n) ==
  (<<"fetchFailures", "fetchFailures.resolved">>
     \o [i \in 1..n |-> "extractPatterns"])
  \o <<"embedBatch", "embedBatch.resolved", "clusterFailures", "saveClusters",
       "saveClusters.resolved">>

FetchedEmpty ==
  \E i \in 1..Len(calls) :
    calls[i].op = "fetchFailures.resolved" /\ Len(calls[i].arg) = 0

\* C9: when fetchFailures resolves to an empty array, detect() resolves to an
\* empty array and never calls embedBatch, clusterFailures or saveClusters.
C9_EmptyFetchShortCircuit ==
  FetchedEmpty =>
    /\ pc = "resolved"
    /\ returned = Resolved(<<>>)
    /\ \A i \in 1..Len(calls) :
         calls[i].op \notin {"extractPatterns", "embedBatch",
                             "clusterFailures", "saveClusters"}

\* detect() has settled after an empty fetch
C9_Witness ==
  /\ pc = "resolved"
  /\ FetchedEmpty
  /\ Len(calls) = 2

\* C10: on a non-empty fetch detect() runs, in this order and once each,
\* fetchFailures with the configured days, extractPatterns on every fetched
\* failure, one embedBatch with one context per failure in fetch order,
\* clusterFailures on the whole embedded batch, and one saveClusters with the
\* clustering result; the value it resolves to is that result.
C10_StepOrder ==
  LET n == Len(fetchedFailures)
  IN n > 0 =>
       /\ IsPrefix(SettledOps, ExpectedOps(n))
       /\ Len(SettledOps) >= n + 3
       /\ calls[1].arg = config.timeWindow.days
       /\ calls[2].arg = fetchedFailures
       /\ \A i \in 1..n : calls[2 + i].arg = fetchedFailures[i]
       /\ calls[n + 3].arg
            = [i \in 1..n |->
                 createRichEmbeddingContext(calls[2 + i].result.testTitle,
                                            calls[2 + i].result.errorMessage,
                                            calls[2 + i].result.metadata)]
       /\ Len(SettledOps) >= n + 5 =>
            /\ Len(SettledOps) >= n + 6
            /\ Len(calls[n + 4].arg) = n
            /\ Len(calls[n + 5].arg) = n
            /\ \A i \in 1..n :
                 /\ calls[n + 5].arg[i].id = fetchedFailures[i].id
                 /\ calls[n + 5].arg[i].vector = calls[n + 4].arg[i]
                 /\ calls[n + 5].arg[i].metadata = calls[2 + i].result.metadata
            /\ calls[n + 6].arg = calls[n + 5].result
       /\ (pc = "resolved" \/ returned # EmptyObject) =>
            \/ pc = "rejected" /\ returned.kind = "rejected"
            \/ /\ pc = "resolved"
               /\ SettledOps = ExpectedOps(n)
               /\ returned = Resolved(calls[n + 5].result)

\* a complete run over three failures whose vectors differ and that yields a
\* cluster
C10_Witness ==
  /\ pc = "resolved"
  /\ Len(fetchedFailures) = 3
  /\ embeddedFailures[1].vector # embeddedFailures[3].vector
  /\ Len(returned.value) >= 1
  /\ store = returned.value

Rejections ==
  {"fetchFailures.rejected", "embedBatch.rejected", "saveClusters.rejected"}

\* the call whose rejection the log entry records
RejectedCall(op) ==
  CASE op = "fetchFailures.rejected" -> "fetchFailures"
    [] op = "embedBatch.rejected" -> "embedBatch"
    [] op = "saveClusters.rejected" -> "saveClusters"

Invoked(op) == \E i \in 1..Len(calls) : calls[i].op = op

\* C11: when fetchFailures, embedBatch or saveClusters rejects, detect()
\* rejects with that same error, the failing collaborator was called once and
\* nothing is called after the rejection; after a rejected fetch or embedding
\* saveClusters is never called and the store is unchanged.
C11_RejectionPropagates ==
  /\ pc = "rejected" => Len(calls) > 0 /\ calls[Len(calls)].op \in Rejections
  /\ \A i \in 1..Len(calls) :
       calls[i].op \in Rejections =>
         /\ i = Len(calls)
         /\ pc = "rejected"
         /\ returned = Rejected(calls[i].arg)
         /\ calls[i - 1].op = RejectedCall(calls[i].op)
         /\ Cardinality({j \in 1..Len(calls) :
                           calls[j].op = RejectedCall(calls[i].op)}) = 1
         /\ calls[i].op = "fetchFailures.rejected" =>
              /\ ~Invoked("extractPatterns")
              /\ ~Invoked("embedBatch")
         /\ calls[i].op # "saveClusters.rejected" =>
              /\ ~Invoked("clusterFailures")
              /\ ~Invoked("saveClusters")
              /\ store = <<>>

\* a run over two or more failures in which embedBatch rejected
C11_Witness ==
  /\ pc = "rejected"
  /\ calls[Len(calls)].op = "embedBatch.rejected"
  /\ Len(fetchedFailures) >= 2
  /\ returned = Rejected("embedding error")

\* a clustering configuration the specification calls valid: positive
\* epsilon, non-negative minPoints
ValidClustering(clustering) ==
  clustering.epsilon > 0 /\ clustering.minPoints >= 0

\* C12: with an invalid clustering configuration the run fails before
\* fetchFailures, embedBatch or saveClusters is invoked.
C12_InvalidConfigFailsFast ==
  (pc \notin {"call", "done"} /\ ~ValidClustering(config.clustering)) =>
    /\ ~Invoked("fetchFailures")
    /\ ~Invoked("embedBatch")
    /\ ~Invoked("saveClusters")
    /\ pc \in {"idle", "rejected"}

(***************************************************************************)
(* Properties of extractPatterns, stated on the passes of SpecExtract.     *)
(***************************************************************************)
AttributeKeys ==
  {"filePath", "lineNumber", "errorSnippets", "locator", "matcher",
   "expectedValue", "actualValue", "timeoutMs", "projectName", "suite"}

\* the first pass returned
FirstPassReturned == Len(extractPasses) >= 1 /\ ~Threw(extractPasses[1])

\* C13: every attribute present in the input failure's metadata has the same
\* value in the metadata extractPatterns returns.
C13_NeverOverwrites ==
  (FirstPassReturned /\ Has(extractInput, "metadata")) =>
    \A k \in AttributeKeys \cap DOMAIN extractInput.metadata :
      /\ Has(extractPasses[1].metadata, k)
      /\ extractPasses[1].metadata[k] = extractInput.metadata[k]

\* C14: extractPatterns is idempotent: a second pass over the result of a
\* first pass returns that result unchanged.
C14_Idempotent ==
  Len(extractPasses) = 2 => extractPasses[2] = extractPasses[1]

\* a second pass has run over a first pass that filled attributes in
C14_Witness ==
  /\ pc = "extractedTwice"
  /\ Len(extractPasses) = 2
  /\ ~Has(extractInput, "metadata")
  /\ IsTruthy(extractPasses[1].metadata, "locator")
  /\ IsTruthy(extractPasses[1].metadata, "filePath")

\* C15: extractPatterns returns, with a defined metadata object, for every
\* failure, among them those whose errorMessage is empty or absent and those
\* without metadata; attributes no heuristic matched stay unset.
C15_NeverThrows ==
  Len(extractPasses) >= 1 =>
    /\ ~Threw(extractPasses[1])
    /\ Has(extractPasses[1], "metadata")
    /\ (/\ ~Has(extractInput, "metadata")
        /\ Has(extractInput, "errorMessage")
        /\ extractInput.errorMessage = "")
       => \A k \in AttributeKeys \ {"errorSnippets"} :
            ~IsTruthy(extractPasses[1].metadata, k)

(***************************************************************************)
(* Properties of the context builders, stated on the string returned.      *)
(***************************************************************************)
\* a context builder has returned
ContextBuilt == pc \in {"rich", "playwright"}

\* the positions at which a fragment of the string begins
FragmentStarts(s) == {1} \cup {i \in 3..Len(s) : LitAt(s, i - 2, "\n\n", FALSE)}

\* the fragments that begin with a label
FragmentsWith(s, label) == {i \in FragmentStarts(s) : LitAt(s, i, label, FALSE)}

\* a fragment that consists of its label alone
EmptyValued(s, label) ==
  \E i \in FragmentsWith(s, label) :
    \/ i + Len(label) > Len(s)
    \/ LitAt(s, i + Len(label), "\n\n", FALSE)

Labels ==
  {"Test: ", "Project: ", "Suite: ", "Location: ", "Locator: ", "Selector: ",
   "Matcher: ", "Actual: ", "Expected: ", "Timeout: ", "Code:\n", "Error: "}

\* the attributes a label's fragment is built from
DataOf(label) ==
  CASE label = "Project: " -> {"projectName"}
    [] label = "Suite: " -> {"suite", "testPath"}
    [] label = "Location: " -> {"filePath", "lineNumber"}
    [] label = "Locator: " -> {"locator"}
    [] label = "Selector: " -> {"selector", "locator"}
    [] label = "Matcher: " -> {"matcher"}
    [] label = "Actual: " -> {"actualValue"}
    [] label = "Expected: " -> {"expectedValue"}
    [] label = "Timeout: " -> {"timeoutMs"}
    [] label = "Code:\n" -> {"errorSnippets"}
    [] OTHER -> {}

\* C16: no fragment of the returned string is a label with an empty value,
\* a metadata fragment is there only if an attribute it is built from is
\* present, Location only if file path and line number both are, and with
\* empty metadata the string is the title fragment, a blank line and the
\* error fragment.
C16_NoEmptyLabel ==
  ContextBuilt =>
    /\ \A label \in Labels : ~EmptyValued(contextString, label)
    /\ \A label \in Labels \ {"Test: ", "Error: "} :
         FragmentsWith(contextString, label) # {} =>
           DataOf(label) \cap DOMAIN contextArgs.failure.metadata # {}
    /\ FragmentsWith(contextString, "Location: ") # {} =>
         {"filePath", "lineNumber"} \subseteq DOMAIN contextArgs.failure.metadata
    /\ contextArgs.failure.metadata = EmptyObject =>
         contextString = "Test: " \o contextArgs.failure.testTitle \o "\n\n"
                         \o "Error: " \o contextArgs.failure.errorMessage

\* the integer nearest to a weight given in tenths, a half rounding up
NearestInteger(weight) ==
  CHOOSE n \in 0..(weight \div 10 + 1) : 10 * n - 5 <= weight /\ weight < 10 * n + 5

\* the repetitions the weight configured for a feature stands for
ExpectedRepeats(feature) ==
  Max(1, NearestInteger(contextArgs.config[feature].weight))

\* the fragments of the Playwright context that carry a feature's label
Emitted(label) == Cardinality(FragmentsWith(contextString, label))

\* a feature is held by the failure's metadata
Present(keys) ==
  \E k \in keys : IsTruthy(contextArgs.failure.metadata, k)

C18_BatchOrderPreserved ==
  pc = "batchResolved" =>
    /\ batchOutcome.kind = "resolved"
    /\ Len(batchOutcome.value) = Len(contents)
    /\ \A i \in 1..Len(contents) :
         batchOutcome.value[i] = embedContent(contents[i])

\* two batches have resolved, the calls of the second one completing last
\* text first
C18_Witness ==
  /\ pc = "batchResolved"
  /\ Len(contents) > batchSize + 1
  /\ Len(completed) >= 2
  /\ completed[1].index > completed[2].index
  /\ contents[1] # contents[Len(contents)]

(***************************************************************************)
(* Properties of the data adapters.                                        *)
(***************************************************************************)
\* the clusters the adapter under study holds
StoredClusters ==
  IF adapterKind = "InMemoryAdapter" THEN memoryClusters
  ELSE existingClusters(clustersFile)

IdsIn(list) == {list[i].id : i \in 1..Len(list)}

\* the ids saved so far
SavedIds == UNION {IdsIn(saveLog[n]) : n \in 1..Len(saveLog)}

\* the last cluster of a list that has the id
LastWith(list, id) ==
  list[CHOOSE i \in 1..Len(list) :
         /\ list[i].id = id
         /\ \A j \in (i + 1)..Len(list) : list[j].id # id]

\* the cluster of the most recent saveClusters call that held the id
LatestSaved(id) ==
  LastWith(saveLog[CHOOSE n \in 1..Len(saveLog) :
                     /\ id \in IdsIn(saveLog[n])
                     /\ \A m \in (n + 1)..Len(saveLog) : id \notin IdsIn(saveLog[m])],
           id)

\* one stored cluster per saved id, the one saved last
MergedById(stored) ==
  /\ \A i, j \in 1..Len(stored) : stored[i].id = stored[j].id => i = j
  /\ IdsIn(stored) = SavedIds
  /\ \A i \in 1..Len(stored) : stored[i] = LatestSaved(stored[i].id)

\* stored clusters, each once, with counts that do not increase
SortedSelection(fetched, stored) ==
  /\ \A i \in 1..Len(fetched) : \E j \in 1..Len(stored) : fetched[i] = stored[j]
  /\ \A i, j \in 1..Len(fetched) : fetched[i].id = fetched[j].id => i = j
  /\ \A i, j \in 1..Len(fetched) : i < j => fetched[i].count >= fetched[j].count

\* no stored cluster that was left out has a higher count than a fetched one
HighestCounts(fetched, stored) ==
  \A j \in 1..Len(stored) :
    stored[j].id \notin IdsIn(fetched) =>
      \A i \in 1..Len(fetched) : fetched[i].count >= stored[j].count

\* C19: after any sequence of saveClusters calls the adapter holds one
\* cluster per saved id, the one of the most recent call that held the id;
\* fetchClusters returns the stored clusters by descending count, all of
\* them without a limit and at most limit of them, the highest counts, with
\* a limit.
C19_MergeByIdAndFetch ==
  /\ MergedById(StoredClusters)
  /\ pc = "fetchedClusters" =>
       /\ SortedSelection(fetchedClusters, StoredClusters)
       /\ HighestCounts(fetchedClusters, StoredClusters)
       /\ IF Has(fetchArgs, "limit")
          THEN Len(fetchedClusters) <= fetchArgs.limit
          ELSE Len(fetchedClusters) = Len(StoredClusters)

(***************************************************************************)
(* Properties of successive runs.                                          *)
(***************************************************************************)
\* the ids of the clusters of one run are pairwise distinct
DistinctWithin(clusters) ==
  \A i, j \in 1..Len(clusters) : clusters[i].id = clusters[j].id => i = j

\* C20: the ids of the clusters returned by one run of clusterFailures are
\* pairwise distinct, no id of a run is an id of an earlier run, and the
\* store that merges by id holds every cluster of every run.
C20_FreshIds ==
  /\ \A n \in 1..Len(runResults) : DistinctWithin(runResults[n])
  /\ \A m, n \in 1..Len(runResults) :
       m < n => IdsIn(runResults[m]) \cap IdsIn(runResults[n]) = {}
  /\ \A n \in 1..Len(runResults) : \A i \in 1..Len(runResults[n]) :
       \E j \in 1..Len(runStore) : runStore[j] = runResults[n][i]

(***************************************************************************)
(* Neighbourhoods and density, computed from the input vectors alone.      *)
(***************************************************************************)
SquaredDistance(u, v) ==
  LET sq[i \in 0..Len(u)] ==
        IF i = 0 THEN 0 ELSE sq[i - 1] + (u[i] - v[i]) * (u[i] - v[i])
  IN sq[Len(u)]

\* Euclidean distance <= epsilon, compared on the squares
Within(i, j) ==
  SquaredDistance(embeddedFailures[i].vector, embeddedFailures[j].vector)
    <= options.epsilon * options.epsilon

Neighbourhood(i) == {j \in 1..Len(embeddedFailures) : Within(i, j)}

DenseAt(i) == Cardinality(Neighbourhood(i)) >= options.minPoints

MemberIndices(k) ==
  {IndexOfId(id) : id \in Range(clusterResults[k].failureIds)}

\* the density groups dbscan.run returns for the input listed in a given order
\* (order[i] is the input position of the i-th vector handed over), as sets of
\* input positions
GroupsInOrder(order) ==
  LET run == DbscanRun([i \in 1..Len(order) |-> embeddedFailures[order[i]].vector],
                       options)
  IN {{order[run[g][i]] : i \in 1..Len(run[g])} : g \in 1..Len(run)}

InputOrder == [i \in 1..Len(embeddedFailures) |-> i]

DensePoints == {i \in 1..Len(embeddedFailures) : DenseAt(i)}

\* which core points share a group: the groups cut down to their core points
CoreSharing(groups) == {g \cap DensePoints : g \in groups}

FirstSeen(elements, v) ==
  CHOOSE i \in 1..Len(elements) :
    elements[i] = v /\ \A j \in 1..(i - 1) : elements[j] # v

\* list names values of elements in the order of their first occurrence
InFirstSeenOrder(list, elements) ==
  /\ Range(list) \subseteq Range(elements)
  /\ \A a, b \in 1..Len(list) :
       a < b => FirstSeen(elements, list[a]) < FirstSeen(elements, list[b])

\* C23: in each consensus list of a returned cluster the retained values
\* appear in the order in which they are first seen among the members, line
\* numbers and timeouts included.
C23_FirstSeenOrder ==
  pc = "done" =>
    \A k \in 1..Len(clusterResults) :
      LET c == clusterResults[k]
          members == ClusterMembers(c)
      IN /\ InFirstSeenOrder(c.commonFilePaths,
                             TruthyStrings(members, "filePath"))
         /\ InFirstSeenOrder(c.commonLineNumbers,
                             TruthyStrings(members, "lineNumber"))
         /\ InFirstSeenOrder(c.commonCodeSnippets, AllSnippets(members))
         /\ InFirstSeenOrder(c.commonLocators,
                             TruthyStrings(members, "locator"))
         /\ InFirstSeenOrder(c.commonMatchers,
                             TruthyStrings(members, "matcher"))
         /\ InFirstSeenOrder(c.commonTimeouts, PositiveTimeouts(members))

\* the number of members whose attribute key holds v
MembersWith(members, key, v) ==
  Cardinality({i \in 1..Len(members) :
                 Has(members[i].metadata, key) /\ members[i].metadata[key] = v})

\* the number of members whose snippet list holds the line v
MembersWithSnippet(members, v) ==
  Cardinality({i \in 1..Len(members) :
                 /\ Has(members[i].metadata, "errorSnippets")
                 /\ v \in Range(members[i].metadata.errorSnippets)})

\* C26: every value of a consensus list of a returned cluster is held by at
\* least half of the cluster's members, counted as distinct members:
\* 2 * (members holding the value) >= count, code snippets included.
C26_SharedByHalf ==
  pc = "done" =>
    \A k \in 1..Len(clusterResults) :
      LET c == clusterResults[k]
          members == ClusterMembers(c)
      IN /\ \A v \in Range(c.commonFilePaths) :
              2 * MembersWith(members, "filePath", v) >= c.count
         /\ \A v \in Range(c.commonLineNumbers) :
              2 * MembersWith(members, "lineNumber", v) >= c.count
         /\ \A v \in Range(c.commonCodeSnippets) :
              2 * MembersWithSnippet(members, v) >= c.count
         /\ \A v \in Range(c.commonLocators) :
              2 * MembersWith(members, "locator", v) >= c.count
         /\ \A v \in Range(c.commonMatchers) :
              2 * MembersWith(members, "matcher", v) >= c.count
         /\ \A v \in Range(c.commonTimeouts) :
              2 * MembersWith(members, "timeoutMs", v) >= c.count

\* the regular expressions extractFrameworkDetails applies to the whole
\* message and to a snippet line, per attribute
MessagePattern(key) == IF key = "timeoutMs" THEN "timedOut" ELSE "expected"

SnippetPattern(key) ==
  IF key = "timeoutMs" THEN "snippetTimeout" ELSE "snippetExpected"

\* the snippet lines of the returned failure that yield a value for key
YieldingSnippets(result, key) ==
  SelectSeq(snippetsOrEmpty(result.metadata),
            LAMBDA s : /\ includes(s, "expect(")
                       /\ includes(s, ").")
                       /\ FirstMatch(s, SnippetPattern(key)).found)

\* the input has no value for key while the whole message and a snippet line
\* both yield one
BothYield(key) ==
  /\ Has(extractInput, "errorMessage")
  /\ ~IsTruthy(metadataOf(extractInput), key)
  /\ FirstMatch(extractInput.errorMessage, MessagePattern(key)).found
  /\ YieldingSnippets(extractPasses[1], key) # <<>>

\* C24: when the input has no expected value (or no timeout) and both the
\* whole message and a snippet line yield one, extractPatterns returns the
\* value matched in the whole message.
C24_MessageBeforeSnippet ==
  pc \in {"extracted", "extractedTwice"} =>
    \A key \in {"expectedValue", "timeoutMs"} :
      BothYield(key) =>
        /\ Has(extractPasses[1].metadata, key)
        /\ extractPasses[1].metadata[key]
             = FirstMatch(extractInput.errorMessage, MessagePattern(key)).value

\* C25: a failure whose input metadata has no timeout and whose message
\* contains "Timed out <N>ms" is returned with timeoutMs = N, whichever of
\* locator, matcher, expectedValue and actualValue the input already holds.
\* Stated for the failures none of whose snippet lines carries a timeout
\* option, so that the message is the only source of a timeout.
C25_TimeoutFromMessage ==
  (/\ pc \in {"extracted", "extractedTwice"}
   /\ Has(extractInput, "errorMessage")
   /\ ~Has(metadataOf(extractInput), "timeoutMs")
   /\ FirstMatch(extractInput.errorMessage, "timedOut").found
   /\ YieldingSnippets(extractPasses[1], "timeoutMs") = <<>>)
  => /\ Has(extractPasses[1].metadata, "timeoutMs")
     /\ extractPasses[1].metadata.timeoutMs
          = FirstMatch(extractInput.errorMessage, "timedOut").value

\* the positions of the sub-batch that starts after position start
SubBatch(start) == (start + 1)..(start + 5)

\* while requests are in flight: they are at most five, all of one sub-batch,
\* and every text before that sub-batch has its embedding in results
InFlightBounded ==
  /\ Cardinality(inFlight) <= 5
  /\ inFlight \subseteq SubBatch(batchStart)
  /\ pc = "awaitAll" => Len(results) = batchStart
  /\ pc = "batchRejected" => batchOutcome.kind = "rejected"

\* a step that issues requests finds none in flight, no rejection, and the
\* embeddings of all earlier texts collected
IssuedAfterAllResolved ==
  (inFlight' \ inFlight # {}) =>
    /\ inFlight = {}
    /\ pc # "batchRejected"
    /\ Len(results) = batchStart'
    /\ inFlight' = SubBatch(batchStart') \cap (1..Len(contents))

\* a step in which a request leaves the flight without a value is a rejection
\* of embedBatch, and after a rejection nothing is issued
RejectionEndsBatch ==
  /\ (inFlight' # inFlight /\ completed' = completed
        /\ inFlight' \subseteq inFlight) =>
       (pc' = "batchRejected" /\ batchOutcome'.kind = "rejected")
  /\ pc = "batchRejected" =>
       (pc' = "batchRejected" /\ inFlight' \subseteq inFlight
          /\ batchStart' = batchStart)

\* C27: during embedBatch at most 5 embedContent requests are in flight at
\* any moment, no request of a sub-batch is issued before every request of
\* the sub-batch before it has resolved, and when a request rejects
\* embedBatch rejects and no request of a later sub-batch is issued.
C27_BoundedConcurrency ==
  /\ []InFlightBounded
  /\ [][IssuedAfterAllResolved /\ RejectionEndsBatch]_vars

\* a request of the second sub-batch rejects after the five of the first one
\* resolved, while another request of the second sub-batch is still in flight
C27_Witness ==
  /\ pc = "batchRejected"
  /\ batchStart = 5
  /\ Len(results) = 5
  /\ inFlight # {}
  /\ Len(contents) = 7

\* C28: in a run of detect() through a Playwright detective whose embedding
\* provider is configured with selector, timeout and assertion weights, the
\* text that reaches the base provider's embedBatch for a failure is
\* createPlaywrightEmbeddingContext(failure, config) for the failure being
\* embedded and the provider's configuration.
C28_PlaywrightContextUsed ==
  (/\ pc = "detected"
   /\ Has(contextArgs.config, "selectors")
   /\ Has(contextArgs.config, "timeouts")
   /\ Has(contextArgs.config, "assertions"))
  => contextString =
       createPlaywrightEmbeddingContext(
         extractPatterns(contextArgs.failure),
         PlaywrightEmbeddingProviderConfig(contextArgs.config))

(***************************************************************************)
(* Properties of overlapping saveClusters calls.                           *)
(***************************************************************************)
\* C29: once the overlapping saveClusters calls on one clusters file have
\* all resolved, the file holds every cluster of both calls, under its id
\* one of the values the calls brought for that id, whatever the order of the
\* calls' read and write steps.
C29_NoLostUpdate ==
  (pc = "overlap" /\ \A i \in 1..MaxSavers : savers[i].at = "resolved") =>
    \A i \in 1..MaxSavers :
      \A j \in 1..Len(savers[i].clusters) :
        \E k \in 1..Len(existingClusters(sharedFile)) :
          /\ existingClusters(sharedFile)[k].id = savers[i].clusters[j].id
          /\ existingClusters(sharedFile)[k]
               \in {c \in UNION {Range(savers[h].clusters) : h \in 1..MaxSavers} :
                      c.id = savers[i].clusters[j].id}

(***************************************************************************)
(* Properties of the Firestore adapter.                                    *)
(***************************************************************************)
StoredAttributeKeys ==
  {"projectName", "suite", "filePath", "lineNumber", "locator", "matcher",
   "expectedValue", "actualValue", "timeoutMs", "errorSnippets"}

\* the document fetchFailures mapped the failure from
DocumentOf(failure) ==
  failuresCollection[CHOOSE i \in 1..Len(failuresCollection) :
                       failuresCollection[i].id = failure.id]

\* C30: a failure fetchFailures returns holds, for every attribute stored
\* under the metadata field of its document (the shape saveFailures writes),
\* that attribute with its stored value.
C30_RoundTripKeepsAttributes ==
  pc = "fetchedBack" =>
    \A i \in 1..Len(fetchedBack) :
      \A key \in StoredAttributeKeys :
        Has(DocumentOf(fetchedBack[i]).data.metadata, key) =>
          /\ Has(fetchedBack[i].metadata, key)
          /\ fetchedBack[i].metadata[key]
               = DocumentOf(fetchedBack[i]).data.metadata[key]

====
